---- MODULE Spec2Model ----
(***************************************************************************)
(* vstask: the task runner of runner/runner.go.  RunTask runs the direct   *)
(* dependencies of the requested task (sequence or parallel), then the     *)
(* task itself; runTaskInternal builds the command, starts the process     *)
(* (readiness-gated pipes, PTY or stdio with the fallback chain of         *)
(* startAndWait) and waits in a select on exit, readiness and the          *)
(* cancellation of the signal context.                                     *)
(***************************************************************************)
EXTENDS Integers, Sequences, FiniteSets, TLC

VARIABLES
    index,    \* label -> Task, as built by indexByLabel(tasks.GetTasks())
    env,      \* the process environment: PTY usable, exec outcomes, signals left
    main,     \* the goroutine executing RunTask
    run,      \* slot -> the runTaskInternal invocation of that slot
    proc,     \* slot -> the OS process launched by that invocation
    errCh,    \* the buffered error channel of the parallel branch (slots, in send order)
    started,  \* slots in the order their processes were launched
    inputs,   \* the input definitions of the task file and VSTASK_INPUT_* of the environment
    resolver, \* the InputResolver shared by the run: its cache, and the calls of each source
    branch,   \* branch -> the substitution phase of one runTaskInternal invocation
    heap,     \* reference -> the backing array of an Args slice
    built,    \* the task handed to buildCmd, and the command or error it returned
    chain,    \* the start attempts startAndWait has made for the built command
    tty,      \* the input mode of the runner's terminal
    subst,    \* the strings of the effective task while runTaskInternal substitutes them
    walk      \* runSingleTaskWithDeps: its seen map, the calls of run and the processes started

rvars == <<index, env, main, run, proc, errCh, started>>
ivars == <<inputs, resolver, branch, heap>>
cvars == <<built, chain>>
dvars == <<subst, walk>>
vars == <<index, env, main, run, proc, errCh, started, inputs, resolver, branch, heap,
          built, chain, tty, subst, walk>>

(* ------------------------------ bounds -------------------------------- *)

\* longest dependsOn list of the requested task
MaxDeps == 2
\* SIGINT/SIGTERM deliveries to the runner during one run
MaxSignals == 1

(* --------------------------- the task file ---------------------------- *)

RootLabel == "r"
\* a label that no task of the file carries
MissingLabel == "m"
Labels == {"r", "a", "b", "w", "v"}
DepLabels == {"a", "w", "r", MissingLabel}

\* slot 0 is the requested task, slot i the i-th entry of its dependsOn
Slots == 0 .. MaxDeps
DepSlots == 1 .. MaxDeps

RECURSIVE SeqsUpTo(_, _)
SeqsUpTo(S, n) ==
    IF n = 0 THEN {<<>>}
    ELSE LET shorter == SeqsUpTo(S, n - 1)
         IN shorter \cup {Append(q, x) : q \in {p \in shorter : Len(p) = n - 1}, x \in S}

Task(label, deps, order, isBg, matcher, type, bash) ==
    [Label |-> label, DependsOn |-> deps, DependsOrder |-> order,
     IsBackground |-> isBg, ProblemMatcher |-> matcher, Type |-> type, Bash |-> bash]

\* The tasks other than the requested one: "a" is a plain task that depends
\* on "b", "w" is a background watcher with a begin pattern that depends on
\* the requested task, "v" a background task that is active on start.
FixedTasks ==
    [a |-> Task("a", <<"b">>, "", FALSE, "none", "shell", FALSE),
     b |-> Task("b", <<>>, "", FALSE, "none", "shell", FALSE),
     w |-> Task("w", <<RootLabel>>, "", TRUE, "begins", "shell", FALSE),
     v |-> Task("v", <<>>, "", TRUE, "activeOnStart", "shell", FALSE)]

indexByLabel(rootTask) ==
    [l \in Labels |-> IF l = RootLabel THEN rootTask ELSE FixedTasks[l]]

Orders == {"sequence", "Sequence", "parallel", ""}

ToLower(s) == IF s = "Sequence" THEN "sequence" ELSE s

RootDeps == index[RootLabel].DependsOn
NDeps == Len(RootDeps)
IsSequence == ToLower(index[RootLabel].DependsOrder) = "sequence"

\* the task a slot runs
SlotLabel(s) == IF s = 0 THEN RootLabel ELSE RootDeps[s]
SlotTask(s) == index[SlotLabel(s)]

(* ------------------------- runner/runner.go --------------------------- *)

\* an element of a problemMatcher: an object with its background block (a
\* pointer: <<>> is nil), or a string alias
Obj(bg) == [alias |-> "", background |-> bg]
Str(alias) == [alias |-> alias, background |-> <<>>]
ProblemMatcherBackground(active, begins) ==
    <<[ActiveOnStart |-> active, BeginsPattern |-> begins]>>

\* The problemMatcher values of the task file, by the name the tasks carry:
\* the begin pattern is a compilable expression ("rx"), one that does not
\* compile ("("), blank (" ") or empty.  "none" is the task without matcher.
MatcherElems ==
    [none |-> <<>>,
     activeOnStart |-> <<Obj(ProblemMatcherBackground(TRUE, ""))>>,
     begins |-> <<Obj(ProblemMatcherBackground(FALSE, "rx"))>>,
     invalid |-> <<Obj(ProblemMatcherBackground(FALSE, "("))>>,
     blank |-> <<Obj(<<>>), Obj(ProblemMatcherBackground(FALSE, " ")), Str("$eslint")>>,
     alias |-> <<Str("$tsc-watch")>>]

\* strings.TrimSpace on a pattern
TrimPattern(p) == IF p = " " THEN "" ELSE p
\* regexp.Compile succeeds
Compiles(p) == p = "rx"

builtinBackgroundByAlias == [a \in {"$tsc-watch"} |-> ProblemMatcherBackground(FALSE, "rx")]

\* ProblemMatcher.FirstBackground: the first object matcher whose background
\* is active on start or has a begin pattern, else the first known alias;
\* <<>> is nil
FirstBackground(elems) ==
    LET usable(i) == /\ elems[i].background # <<>>
                     /\ \/ elems[i].background[1].ActiveOnStart
                        \/ TrimPattern(elems[i].background[1].BeginsPattern) # ""
        known(i) == elems[i].alias \in DOMAIN builtinBackgroundByAlias
        objs == {i \in DOMAIN elems : usable(i)}
        strs == {i \in DOMAIN elems : known(i)}
        first(S) == CHOOSE i \in S : \A j \in S : i <= j
    IN  IF objs # {}
        THEN ProblemMatcherBackground(elems[first(objs)].background[1].ActiveOnStart,
                                      TrimPattern(elems[first(objs)].background[1].BeginsPattern))
        ELSE IF strs # {} THEN builtinBackgroundByAlias[elems[first(strs)].alias]
        ELSE <<>>

\* a matcher for every task that is flagged background
extractBgMatcher_AnyBackground(t) == IF t.IsBackground THEN "activeOnStart" ELSE "nil"

\* nil unless the task is a background task whose matcher can detect
\* readiness; else the way readiness is detected
extractBgMatcher(t) ==
    IF ~t.IsBackground \/ t.ProblemMatcher = "none" THEN "nil"
    ELSE LET bg == FirstBackground(MatcherElems[t.ProblemMatcher])
         IN  IF bg = <<>> THEN "nil"
             ELSE LET beginsRx == bg[1].BeginsPattern # "" /\ Compiles(bg[1].BeginsPattern)
                  IN  IF ~bg[1].ActiveOnStart /\ ~beginsRx THEN "nil"
                      ELSE IF bg[1].ActiveOnStart THEN "activeOnStart" ELSE "begins"

\* buildCmd: an error and no command for a type that is not supported
buildCmd(t) == IF t.Type \in {"shell", "process", "npm"} THEN "ok" ELSE "error"

(* ------------------------- start and fallback ------------------------- *)

Attempts == {"pty1", "pty2", "stdio3", "sh4", "stdio0"}
\* the attempts that run the process under a pseudo-terminal, in waitWithPTY
PtyAttempts == {"pty1", "pty2"}
StartOutcomes == {"ok", "perm", "other"}

isExecPermissionError(e) == e = "perm"

\* a fallback taken for every error
shouldFallbackToSh_AnyError(bash, e) == e # "nil" /\ bash

shouldFallbackToSh(bash, e) == e # "nil" /\ bash /\ e = "perm"

Launch(a) == [launch |-> a, err |-> "nil"]
NoLaunch(e) == [launch |-> "none", err |-> e]

\* The attempt that starts the process, or the error returned when none does.
\* o gives the outcome of each start attempt.
startAndWait(interactive, canUsePTY, bash, o) ==
    LET stdio == IF o["stdio0"] = "ok" THEN Launch("stdio0")
                 ELSE NoLaunch("nil")   \* retErr is returned, and it was never set
    IN  IF interactive /\ canUsePTY
        THEN IF o["pty1"] = "ok" THEN Launch("pty1")
             ELSE IF isExecPermissionError(o["pty1"])
             THEN IF o["pty2"] = "ok" THEN Launch("pty2")
                  ELSE IF o["stdio3"] = "ok" THEN Launch("stdio3")
                  ELSE IF shouldFallbackToSh(bash, o["stdio3"])
                  THEN IF o["sh4"] = "ok" THEN Launch("sh4") ELSE NoLaunch(o["sh4"])
                  ELSE NoLaunch(o["stdio3"])
             ELSE stdio
        ELSE stdio

\* what startAndWait returns for the result res of waiting on the process
\* launched by attempt a
startAndWaitResult(a, res) == IF a = "stdio0" THEN "nil" ELSE res

\* The process leads a group of its own (its pgid is its pid) where the
\* original SysProcAttr with Setpgid is used, and under a PTY, where
\* pty.Start makes it a session leader; the clone started on stdio stays in
\* the group of the runner.
HasProcessGroup(a) == a \in {"ready", "pty1", "pty2", "stdio0"}

\* an exit status that is dropped
exitError_AlwaysNil(code) == "nil"

exitError(code) == IF code = 0 THEN "nil" ELSE "exit"

(* ------------------- runner/runner_helpers.go: inputs ------------------ *)

\* most entries of a task's args
MaxArgs == 1

\* the branches that share one InputResolver: a task alone, or two
\* dependencies launched in parallel
Branches == 1 .. 2
\* references of Args backing arrays: b for the task of branch b as loaded,
\* b + 2 for the copy made from its platform override
Refs == 1 .. 4

InputIds == {"x", "X"}
\* the variable VSTASK_INPUT_X of the environment
EnvNames == {"X"}
\* the environment looked up under the id as written
ToUpper_Identity(id) == id

\* strings.ToUpper on an input id
ToUpper(id) == IF id = "x" THEN "X" ELSE id

\* a string of the task file: a literal, or a reference to an input
Literal == "lit"
Ref(id) == IF id = "x" THEN "${input:x}" ELSE "${input:X}"
\* reInput: the id a string refers to
reInput(f) == IF f = "${input:x}" THEN "x" ELSE IF f = "${input:X}" THEN "X" ELSE "none"

InputKinds == {"undefined", "promptString", "pickString", "pickNoOptions",
               "command", "commandDefault", "other"}
Sources == {"line", "prompt", "pick", "shell"}

Absent == "<absent>"
NoInputs == [kind |-> [id \in InputIds |-> "undefined"], osenv |-> [n \in EnvNames |-> "unset"]]
\* last: what the sources gave at the last resolution of the id (the output
\* of its shell command, and whether the resolution failed)
NoAnswer == [out |-> "none", err |-> FALSE]
NewInputResolver ==
    [cache |-> [id \in InputIds |-> Absent],
     calls |-> [id \in InputIds |-> [src \in Sources |-> 0]],
     last |-> [id \in InputIds |-> NoAnswer]]

\* os.Getenv: the empty string for a variable that is not set
Getenv(n) == IF n \in EnvNames /\ inputs.osenv[n] # "unset" THEN inputs.osenv[n] ELSE ""

Resolved(val, used) == [val |-> val, err |-> FALSE, cached |-> TRUE, used |-> used]
ResolveFailed(used) == [val |-> "", err |-> TRUE, cached |-> FALSE, used |-> used]
Asked(answer, used) == IF answer = "ok" THEN Resolved("p", used) ELSE ResolveFailed(used)

\* what runInputShell returns: the output of the command, a blank line or a
\* line of text
ShellOutputs == {"\n", "o\n"}

\* an output that is used as it is
TrimOutput_Raw(out) == out

\* strings.TrimSpace on the output of the shell command
TrimOutput(out) == IF out = "o\n" THEN "o" ELSE IF out = "\n" THEN "" ELSE out

\* Resolve after a cache miss; c gives the output of the shell command and
\* the outcome of the prompt
ResolveMiss(id, c) ==
    LET e == Getenv(ToUpper(id))
        kind == inputs.kind[id]
        out == TrimOutput(c.shell)
    IN  IF e # "" THEN Resolved(e, {})
        ELSE IF kind = "undefined" THEN Asked(c.ask, {"line"})
        ELSE IF kind = "pickString" THEN Asked(c.ask, {"pick"})
        ELSE IF kind \in {"command", "commandDefault"}
        THEN IF out # "" THEN Resolved(out, {"shell"})
             ELSE IF kind = "commandDefault" THEN Resolved("d", {"shell"})
             ELSE Asked(c.ask, {"shell", "prompt"})
        ELSE Asked(c.ask, {"prompt"})

SourceOutcomes == [shell : ShellOutputs, ask : {"ok", "err"}]

InputTask(cwd, command, args, envVal, linuxArgs) ==
    [Cwd |-> cwd, Command |-> command, Args |-> args, Env |-> envVal, LinuxArgs |-> linuxArgs]

\* applyPlatformOverrides: eff := t shares the Args array of t unless the
\* platform block carries args, which are copied (LinuxArgs is <<>> for a
\* block without args, and <<args>> otherwise)
applyPlatformOverrides(b, t) ==
    [Cwd |-> t.Cwd, Command |-> t.Command, Env |-> t.Env,
     Args |-> IF t.LinuxArgs = <<>> THEN b ELSE b + 2]

\* the strings runTaskInternal substitutes, in its order: cwd, command,
\* args, the environment value
EffArgs(b) == heap[branch[b].eff.Args]
NFields(b) == 3 + Len(EffArgs(b))
FieldAt(b, i) ==
    IF i = 1 THEN branch[b].eff.Cwd
    ELSE IF i = 2 THEN branch[b].eff.Command
    ELSE IF i = NFields(b) THEN branch[b].eff.Env
    ELSE EffArgs(b)[i - 2]

collectInputRefsFromTask(b) ==
    {reInput(FieldAt(b, i)) : i \in 1 .. NFields(b)} \ {"none"}

OffBranch ==
    [pc |-> "off", task |-> InputTask("", Literal, <<>>, "", <<>>),
     eff |-> [Cwd |-> "", Command |-> Literal, Env |-> "", Args |-> 1],
     todo |-> {}, pos |-> 0, cur |-> "none", failed |-> FALSE, started |-> FALSE]

\* runTaskInternal is entered: eff := applyPlatformOverrides(t)
EnterBranch(b, t) ==
    [OffBranch EXCEPT !.pc = "enter", !.task = t, !.eff = applyPlatformOverrides(b, t)]

(* ------------------------------- state -------------------------------- *)

\* oldState: the terminal mode term.MakeRaw returned to waitWithPTY
IdleRun == [pc |-> "idle", path |-> "none", ret |-> "none", saw |-> -1,
            ctxDone |-> FALSE, waitForReady |-> FALSE, oldState |-> "none"]

TtyModes == {"cooked", "raw"}
\* out: the first line the process has printed; signalled, killed: SIGTERM
\* and SIGKILL have been sent to its group; timer: the SIGKILL timer of
\* killTree is pending
NoProc == [st |-> "none", code |-> 0, out |-> "none", ready |-> FALSE, pgrp |-> FALSE,
           signalled |-> FALSE, killed |-> FALSE, timer |-> FALSE]

RootTasks(orders, depLists, kinds, types, bashes) ==
    {Task(RootLabel, d, ord, k[1], k[2], ty, b) :
        d \in depLists, ord \in orders, k \in kinds, ty \in types, b \in bashes}

InitRunner(rootTasks, outcomes, signals) ==
    /\ index \in {indexByLabel(t) : t \in rootTasks}
    /\ env \in [pty : BOOLEAN, outcomes : {outcomes}, sigLeft : {signals}]
    /\ main = [pc |-> "begin", k |-> 1, ret |-> "none", lbl |-> "", cause |-> "none"]
    /\ run = [s \in Slots |-> IdleRun]
    /\ proc = [s \in Slots |-> NoProc]
    /\ errCh = <<>>
    /\ started = <<>>
    /\ subst = [pc |-> "off"]
    /\ walk = [pc |-> "off"]

\* no command is built outside runTaskInternal
NoCommand ==
    /\ built = [pc |-> "off"]
    /\ chain = [pc |-> "off"]

\* tasks without input references
NoInputRefs ==
    /\ inputs = NoInputs
    /\ resolver = NewInputResolver
    /\ branch = [b \in Branches |-> OffBranch]
    /\ heap = [r \in Refs |-> <<>>]

InitWith(rootTasks, outcomes, signals) ==
    /\ InitRunner(rootTasks, outcomes, signals)
    /\ NoInputRefs
    /\ NoCommand

\* RunTask with dependencies, in an environment where exec succeeds and no
\* signal arrives
Init ==
    /\ InitWith(RootTasks(Orders, SeqsUpTo(DepLabels, MaxDeps),
                          {<<FALSE, "none">>, <<TRUE, "begins">>}, {"shell"}, {FALSE}),
                {"ok"}, 0)
    /\ tty = "cooked"

(* ------------------------------ RunTask ------------------------------- *)

Call(s, wfr) == [run EXCEPT ![s] = [IdleRun EXCEPT !.pc = "called", !.waitForReady = wfr]]

MainReturn(ret, lbl, cause) ==
    main' = [main EXCEPT !.pc = "returned", !.ret = ret, !.lbl = lbl, !.cause = cause]

\* the requested task gated on readiness like a dependency
RootWaitForReady_LikeDeps == TRUE

\* the requested task is run with waitForReady = false
RootWaitForReady == FALSE

RunRoot ==
    /\ run' = Call(0, RootWaitForReady)
    /\ main' = [main EXCEPT !.pc = "root"]

\* dep, ok := index[lbl]
Lookup(lbl) == lbl \in DOMAIN index

\* a wrong label in the error: the requested task's, not the missing one
NotFound_OwnLabel(lbl) ==
    /\ MainReturn("notfound", RootLabel, "none")
    /\ UNCHANGED run

\* break in place of return: the loop is left and the task is run anyway
NotFound_Break(lbl) == RunRoot

\* return fmt.Errorf("dependsOn: task %q not found", lbl)
NotFound(lbl) ==
    /\ MainReturn("notfound", lbl, "none")
    /\ UNCHANGED run

\* an error wrapped with the label of the first dependency of the list
DependencyFailed_FirstLabel(s) ==
    /\ MainReturn("depfailed", RootDeps[1], run[s].ret)
    /\ UNCHANGED run

\* return fmt.Errorf("dependency %q failed: %w", lbl, err)
DependencyFailed(s) ==
    /\ MainReturn("depfailed", RootDeps[s], run[s].ret)
    /\ UNCHANGED run

RunTaskEnter ==
    /\ main.pc = "begin"
    /\ IF NDeps = 0 THEN RunRoot
       ELSE /\ main' = [main EXCEPT !.pc = IF IsSequence THEN "seq" ELSE "par", !.k = 1]
            /\ UNCHANGED run
    /\ UNCHANGED <<dvars, cvars, tty, ivars, index, env, proc, errCh, started>>

\* the sequence loop may go on once the previous dependency has returned
SeqMayStep == main.k = 1 \/ run[main.k - 1].pc = "done"

\* one iteration of the sequence loop: the result of the previous
\* dependency, then the lookup and the call of the next
RunTaskSeqStep ==
    /\ main.pc = "seq"
    /\ SeqMayStep
    /\ IF main.k > 1 /\ run[main.k - 1].ret # "nil"
       THEN DependencyFailed(main.k - 1)
       ELSE IF main.k > NDeps THEN RunRoot
       ELSE IF ~Lookup(RootDeps[main.k]) THEN NotFound(RootDeps[main.k])
       ELSE /\ run' = Call(main.k, TRUE)
            /\ main' = [main EXCEPT !.k = main.k + 1]
    /\ UNCHANGED <<dvars, cvars, tty, ivars, index, env, proc, errCh, started>>

\* a parallel loop that waits for the previous branch
ParMaySpawn_AfterPrevious == main.k = 1 \/ run[main.k - 1].pc = "done"

\* the parallel loop never waits for a branch
ParMaySpawn == TRUE

\* one iteration of the parallel loop: the lookup, then the go statement
RunTaskParSpawn ==
    /\ main.pc = "par"
    /\ ParMaySpawn
    /\ IF ~Lookup(RootDeps[main.k]) THEN NotFound(RootDeps[main.k])
       ELSE /\ run' = Call(main.k, TRUE)
            /\ main' = [main EXCEPT !.k = main.k + 1,
                                    !.pc = IF main.k = NDeps THEN "wgwait" ELSE "par"]
    /\ UNCHANGED <<dvars, cvars, tty, ivars, index, env, proc, errCh, started>>

\* a wait that ends with the first branch
WaitGroupDone_First == \E s \in 1 .. NDeps : run[s].pc = "done"

\* wg.Wait() returns once every branch has called wg.Done()
WaitGroupDone == \A s \in 1 .. NDeps : run[s].pc = "done"

\* wg.Wait(), close(errCh) and the range over errCh
RunTaskParWait ==
    /\ main.pc = "wgwait"
    /\ WaitGroupDone
    /\ IF errCh # <<>> THEN DependencyFailed(Head(errCh))
       ELSE RunRoot
    /\ UNCHANGED <<dvars, cvars, tty, ivars, index, env, proc, errCh, started>>

\* return runTaskInternal(task, root, resolver, false)
RunTaskReturn ==
    /\ main.pc = "root"
    /\ run[0].pc = "done"
    /\ MainReturn(run[0].ret, "", "none")
    /\ UNCHANGED <<dvars, cvars, tty, ivars, index, env, run, proc, errCh, started>>

(* -------------------------- runTaskInternal --------------------------- *)

\* the branch of a parallel dependency sends its error on errCh
IsParallelBranch(s) == s \in DepSlots /\ ~IsSequence

\* a return of waitWithPTY that leaves the terminal as it is
Restore_Skipped(s) == tty

\* the deferred term.Restore(fd, oldState) of waitWithPTY; the other paths
\* never touch the terminal
Restore(s) == IF run[s].path \in PtyAttempts THEN run[s].oldState ELSE tty

\* term.MakeRaw in waitWithPTY (the PTY is used when stdin is a terminal)
MakeRaw(path) == IF path \in PtyAttempts THEN "raw" ELSE tty

Return(s, ret, saw) ==
    /\ run' = [run EXCEPT ![s] = [@ EXCEPT !.pc = "done", !.ret = ret, !.saw = saw]]
    /\ errCh' = IF IsParallelBranch(s) /\ ret # "nil" THEN Append(errCh, s) ELSE errCh
    /\ tty' = Restore(s)

Start(s, path) ==
    /\ run' = [run EXCEPT ![s] = [@ EXCEPT !.pc = "wait", !.path = path,
                                           !.oldState = IF path \in PtyAttempts THEN tty
                                                        ELSE "none"]]
    /\ tty' = MakeRaw(path)
    /\ proc' = [proc EXCEPT ![s] = [NoProc EXCEPT !.st = "running",
                                                   !.pgrp = HasProcessGroup(path)]]
    /\ started' = Append(started, s)
    /\ UNCHANGED errCh

Finish(s, plan) ==
    IF plan.launch # "none" THEN Start(s, plan.launch)
    ELSE /\ Return(s, IF plan.err = "nil" THEN "nil" ELSE "start", -1)
         /\ UNCHANGED <<proc, started>>

\* runTaskInternal up to the select it blocks in: buildCmd, the signal
\* context, then the readiness-gated start or startAndWait with the retry
\* under /bin/sh
runTaskInternal(s) ==
    /\ run[s].pc = "called"
    /\ LET t == SlotTask(s)
           bg == extractBgMatcher(t)
       IN  IF buildCmd(t) = "error"
           THEN /\ Return(s, "build", -1)
                /\ UNCHANGED <<proc, started>>
           ELSE IF bg # "nil" /\ run[s].waitForReady
           THEN \E o \in env.outcomes :
                    Finish(s, IF o = "ok" THEN Launch("ready") ELSE NoLaunch(o))
           ELSE \E o1 \in [Attempts -> env.outcomes] :
                    LET p1 == startAndWait(TRUE, env.pty, t.Bash, o1)
                    IN  IF p1.launch = "none" /\ shouldFallbackToSh(t.Bash, p1.err)
                        THEN \E o2 \in [Attempts -> env.outcomes] :
                                 Finish(s, startAndWait(TRUE, env.pty, FALSE, o2))
                        ELSE Finish(s, p1)
    /\ UNCHANGED <<dvars, cvars, ivars, index, env, main>>

(* ----------------------------- the process ---------------------------- *)

Waiting(s) == run[s].pc \in {"wait", "grace", "termwait"}

\* a line of output either matches the begin pattern or does not
Lines == {"match", "other"}

\* the scan loop on a non-empty line: readyCh is closed if the matcher is
\* active on start, or if the line matches the begin pattern
LineFires(bg, line) == bg = "activeOnStart" \/ (bg = "begins" /\ line = "match")

\* the process prints a line, and the scanner reads it
ProcPrint(s) ==
    /\ proc[s].st = "running"
    /\ run[s].pc = "wait"
    /\ run[s].path = "ready"
    /\ ~proc[s].ready
    /\ \E line \in Lines :
          proc' = [proc EXCEPT
                     ![s].out = IF @ = "none" THEN line ELSE @,
                     ![s].ready = LineFires(extractBgMatcher(SlotTask(s)), line)]
    /\ UNCHANGED <<dvars, cvars, tty, ivars, index, env, main, run, errCh, started>>

\* the process exits and cmd.Wait() delivers its status on waitErr
ProcExit(s) ==
    /\ proc[s].st = "running"
    /\ Waiting(s)
    /\ \E code \in {0, 1} : proc' = [proc EXCEPT ![s].st = "exited", ![s].code = code]
    /\ UNCHANGED <<dvars, cvars, tty, ivars, index, env, main, run, errCh, started>>

(* ------------------------------ the select ---------------------------- *)

\* case err := <-waitErr
SelectExit(s) ==
    /\ run[s].pc = "wait"
    /\ proc[s].st = "exited"
    /\ Return(s, IF run[s].path = "ready" THEN exitError(proc[s].code)
                 ELSE startAndWaitResult(run[s].path, exitError(proc[s].code)),
              proc[s].code)
    /\ UNCHANGED <<dvars, cvars, ivars, index, env, main, proc, started>>

\* readiness that is honoured only once the process has exited
ReadyFired_AfterExit(s) == proc[s].ready /\ proc[s].st = "exited"

\* readyCh is closed
ReadyFired(s) == proc[s].ready

\* case <-readyCh: the dependency is ready and is left running
SelectReady(s) ==
    /\ run[s].pc = "wait"
    /\ run[s].path = "ready"
    /\ ReadyFired(s)
    /\ Return(s, "nil", -1)
    /\ UNCHANGED <<dvars, cvars, ivars, index, env, main, proc, started>>

(* ---------------------------- cancellation ----------------------------- *)

\* SIGINT or SIGTERM reaches the runner: every signal.NotifyContext that is
\* live is cancelled
Signal ==
    /\ env.sigLeft > 0
    /\ \E s \in Slots : Waiting(s)
    /\ env' = [env EXCEPT !.sigLeft = env.sigLeft - 1]
    /\ run' = [s \in Slots |-> IF Waiting(s) THEN [run[s] EXCEPT !.ctxDone = TRUE] ELSE run[s]]
    /\ UNCHANGED <<dvars, cvars, tty, ivars, index, main, proc, errCh, started>>

\* a termination that signals every process the runner has started
SignalGroup_All(s) ==
    [t \in Slots |-> [proc[t] EXCEPT !.signalled = @ \/ proc[t].st = "running"]]

\* killTree and terminateProcessTree signal the process group: the signal
\* reaches a process that is running in a group of its own
SignalGroup(s) ==
    [proc EXCEPT ![s].signalled = @ \/ (proc[s].st = "running" /\ proc[s].pgrp)]

\* seconds after which killTree's timer sends SIGKILL
KillAfter == 1
\* seconds startAndWaitStdio and waitWithPTY wait for the exit after killTree
GracePeriod == 2

\* killTree: SIGTERM to the group now, SIGKILL from a timer of the runner
killTree(s) == [SignalGroup(s) EXCEPT ![s].timer = TRUE]

\* a termination that signals nothing
terminateProcessTree_Skipped(s) == proc

\* terminateProcessTree: SIGTERM to the group, a sleep, SIGKILL to the group,
\* all before it returns
terminateProcessTree(s) ==
    [SignalGroup(s) EXCEPT ![s].killed = @ \/ (proc[s].st = "running" /\ proc[s].pgrp)]

\* case <-ctx.Done(): killTree, or terminateProcessTree in the readiness-gated mode
SelectCancel(s) ==
    /\ run[s].pc = "wait"
    /\ run[s].ctxDone
    /\ run' = [run EXCEPT ![s].pc = IF run[s].path = "ready" THEN "termwait" ELSE "grace"]
    /\ proc' = IF run[s].path = "ready" THEN terminateProcessTree(s) ELSE killTree(s)
    /\ UNCHANGED <<dvars, cvars, tty, ivars, index, env, main, errCh, started>>

\* the timer of killTree fires in the runner: SIGKILL to the group that
\* received the SIGTERM
KillTimer(s) ==
    /\ proc[s].timer
    /\ main.pc # "exited"
    /\ proc' = [proc EXCEPT ![s].timer = FALSE, ![s].killed = @ \/ proc[s].signalled]
    /\ UNCHANGED <<dvars, cvars, tty, ivars, index, env, main, run, errCh, started>>

\* main: os.Exit once RunTask has returned; the timers of the runner die
\* with it
RunnerExit ==
    /\ main.pc = "returned"
    /\ main' = [main EXCEPT !.pc = "exited"]
    /\ proc' = [s \in Slots |-> [proc[s] EXCEPT !.timer = FALSE]]
    /\ UNCHANGED <<dvars, cvars, tty, ivars, index, env, run, errCh, started>>

\* the inner select: case err := <-waitErr
GraceExit(s) ==
    /\ run[s].pc = "grace"
    /\ proc[s].st = "exited"
    /\ Return(s, startAndWaitResult(run[s].path, exitError(proc[s].code)), proc[s].code)
    /\ UNCHANGED <<dvars, cvars, ivars, index, env, main, proc, started>>

\* the inner select: case <-time.After(2 * time.Second)
GraceTimeout(s) ==
    /\ run[s].pc = "grace"
    /\ KillAfter < GracePeriod => ~proc[s].timer
    /\ Return(s, startAndWaitResult(run[s].path, "killed"), -1)
    /\ UNCHANGED <<dvars, cvars, ivars, index, env, main, proc, started>>

\* <-waitErrCh; return ctx.Err()
TermWaitExit(s) ==
    /\ run[s].pc = "termwait"
    /\ proc[s].st = "exited"
    /\ Return(s, "ctx", proc[s].code)
    /\ UNCHANGED <<dvars, cvars, ivars, index, env, main, proc, started>>

Next ==
    \/ RunTaskEnter
    \/ RunTaskSeqStep
    \/ RunTaskParSpawn
    \/ RunTaskParWait
    \/ RunTaskReturn
    \/ \E s \in Slots : runTaskInternal(s)
    \/ \E s \in Slots : ProcPrint(s)
    \/ \E s \in Slots : ProcExit(s)
    \/ \E s \in Slots : SelectExit(s)
    \/ \E s \in Slots : SelectReady(s)

Spec == Init /\ [][Next]_vars

\* one runTaskInternal at a time (the requested task alone, or after one
\* dependency), where exec may fail and signals arrive
RunDepLists == {<<>>, <<RootLabel>>, <<"w">>, <<"v">>}
RootKinds == (BOOLEAN \X {"none", "activeOnStart", "begins", "invalid"})
             \cup {<<TRUE, "blank">>, <<TRUE, "alias">>}

InitRun ==
    /\ InitWith(RootTasks({"sequence", "parallel"}, RunDepLists, RootKinds,
                          {"shell", "unsupported"}, BOOLEAN),
                StartOutcomes, MaxSignals)
    /\ tty \in TtyModes

NextRun ==
    \/ Next
    \/ Signal
    \/ \E s \in Slots : SelectCancel(s)
    \/ \E s \in Slots : GraceExit(s)
    \/ \E s \in Slots : GraceTimeout(s)
    \/ \E s \in Slots : TermWaitExit(s)
    \/ \E s \in Slots : KillTimer(s)
    \/ RunnerExit

SpecRun == InitRun /\ [][NextRun]_vars

(* ------------------ the substitution of the inputs -------------------- *)

Cached(id) == resolver.cache[id] # Absent

\* promptInputsForTask: ids := collectInputRefsFromTask(eff)
BranchEnter(b) ==
    /\ branch[b].pc = "enter"
    /\ branch' = [branch EXCEPT ![b].pc = "prompt", ![b].todo = collectInputRefsFromTask(b)]
    /\ UNCHANGED <<dvars, cvars, tty, rvars, inputs, resolver, heap>>

\* promptInputsForTask: the next r.Resolve(id), up to its cache lookup
BranchPrompt(b) ==
    /\ branch[b].pc = "prompt"
    /\ branch[b].cur = "none"
    /\ IF branch[b].todo = {}
       THEN branch' = [branch EXCEPT ![b].pc = "replace", ![b].pos = 1]
       ELSE \E id \in branch[b].todo :
                branch' = IF Cached(id)
                          THEN [branch EXCEPT ![b].todo = @ \ {id}]
                          ELSE [branch EXCEPT ![b].cur = id]
    /\ UNCHANGED <<dvars, cvars, tty, rvars, inputs, resolver, heap>>

\* the assignment of a substituted string: cwdr, eff.Command, eff.Args[i]
\* (in the array eff.Args refers to) or merged[k]
Store(b, val, err) ==
    LET i == branch[b].pos
        done == [branch[b] EXCEPT !.pos = i + 1, !.cur = "none", !.failed = @ \/ err]
    IN  IF i = 1
        THEN /\ branch' = [branch EXCEPT ![b] = [done EXCEPT !.eff.Cwd = val]]
             /\ UNCHANGED heap
        ELSE IF i = 2
        THEN /\ branch' = [branch EXCEPT ![b] = [done EXCEPT !.eff.Command = val]]
             /\ UNCHANGED heap
        ELSE IF i = NFields(b)
        THEN /\ branch' = [branch EXCEPT ![b] = [done EXCEPT !.eff.Env = val]]
             /\ UNCHANGED heap
        ELSE /\ branch' = [branch EXCEPT ![b] = done]
             /\ heap' = [heap EXCEPT ![branch[b].eff.Args][i - 2] = val]

\* replaceInputs on the next string, up to the cache lookup of r.Resolve
BranchReplace(b) ==
    /\ branch[b].pc = "replace"
    /\ branch[b].cur = "none"
    /\ branch[b].pos <= NFields(b)
    /\ LET id == reInput(FieldAt(b, branch[b].pos))
       IN  IF id = "none"
           THEN /\ branch' = [branch EXCEPT ![b].pos = @ + 1]
                /\ UNCHANGED heap
           ELSE IF Cached(id) THEN Store(b, resolver.cache[id], FALSE)
           ELSE /\ branch' = [branch EXCEPT ![b].cur = id]
                /\ UNCHANGED heap
    /\ UNCHANGED <<dvars, cvars, tty, rvars, inputs, resolver>>

\* r.Resolve after the cache miss: the environment, then the source of the
\* input; the callers drop the error
BranchResolve(b) ==
    /\ branch[b].cur # "none"
    /\ \E c \in SourceOutcomes :
          LET id == branch[b].cur
              r == ResolveMiss(id, c)
          IN  /\ resolver' =
                    [cache |-> IF r.cached THEN [resolver.cache EXCEPT ![id] = r.val]
                               ELSE resolver.cache,
                     calls |-> [resolver.calls EXCEPT ![id] =
                                   [src \in Sources |-> @[src] + IF src \in r.used THEN 1 ELSE 0]],
                     last |-> [resolver.last EXCEPT ![id] =
                                  [out |-> IF "shell" \in r.used THEN c.shell ELSE "none",
                                   err |-> r.err]]]
              /\ IF branch[b].pc = "prompt"
                 THEN /\ branch' = [branch EXCEPT ![b].todo = @ \ {id}, ![b].cur = "none",
                                                  ![b].failed = @ \/ r.err]
                      /\ UNCHANGED heap
                 ELSE Store(b, r.val, r.err)
    /\ UNCHANGED <<dvars, cvars, tty, rvars, inputs>>

\* buildCmd and the start of the process with the substituted strings
BranchStart(b) ==
    /\ branch[b].pc = "replace"
    /\ branch[b].pos > NFields(b)
    /\ branch' = [branch EXCEPT ![b].pc = "done", ![b].started = TRUE]
    /\ UNCHANGED <<dvars, cvars, tty, rvars, inputs, resolver, heap>>

InputTasks ==
    {InputTask(cwd, cmd, args, ev, la) :
        cwd \in {"", Ref("x")}, cmd \in {Literal, Ref("x"), Ref("X")},
        args \in SeqsUpTo({Literal, Ref("x")}, MaxArgs),
        ev \in {"", Ref("x")}, la \in {<<>>, <<<<Ref("x")>>>>}}

\* the second of two parallel dependencies
SiblingTask == InputTask("", Ref("x"), <<>>, "", <<>>)

\* one task, or two dependencies run in parallel, whose strings refer to
\* inputs; the definition of "x", and VSTASK_INPUT_X, are drawn
InitInputs ==
    /\ InitRunner({Task(RootLabel, <<>>, "", FALSE, "none", "shell", FALSE)}, {"ok"}, 0)
    /\ env.pty = FALSE
    /\ NoCommand
    /\ tty = "cooked"
    /\ inputs \in [kind : {[id \in InputIds |-> IF id = "x" THEN k ELSE "undefined"] :
                             k \in InputKinds},
                   osenv : [EnvNames -> {"unset", "", "e"}]]
    /\ resolver = NewInputResolver
    /\ \E t \in InputTasks : \E two \in BOOLEAN :
          /\ branch = [b \in Branches |->
                          IF b = 1 THEN EnterBranch(1, t)
                          ELSE IF two THEN EnterBranch(2, SiblingTask) ELSE OffBranch]
          /\ heap = [r \in Refs |->
                        IF r = 1 THEN t.Args
                        ELSE IF r = 3 /\ t.LinuxArgs # <<>> THEN t.LinuxArgs[1]
                        ELSE <<>>]

NextInputs ==
    \/ \E b \in Branches : BranchEnter(b)
    \/ \E b \in Branches : BranchPrompt(b)
    \/ \E b \in Branches : BranchReplace(b)
    \/ \E b \in Branches : BranchResolve(b)
    \/ \E b \in Branches : BranchStart(b)

SpecInputs == InitInputs /\ [][NextInputs]_vars

(* ----------------------------- strings -------------------------------- *)

\* A string is a sequence of atoms; an atom is a word that holds no blank,
\* quote, backslash or shell metacharacter, or it is one such character.
DQ == "\""
SQ == "'"
BS == "\\"
SP == " "
\* the character set posixQuoteForShell looks for: blanks, the shell
\* metacharacters (one stands for all of them here), backslash and the quotes
MetaChars == {SP, "$", BS, DQ, SQ}

\* strings.TrimSpace
RECURSIVE TrimLeft(_)
TrimLeft(s) == IF s # <<>> /\ Head(s) = SP THEN TrimLeft(Tail(s)) ELSE s
RECURSIVE TrimRight(_)
TrimRight(s) ==
    IF s # <<>> /\ s[Len(s)] = SP THEN TrimRight(SubSeq(s, 1, Len(s) - 1)) ELSE s
TrimSpace(s) == TrimRight(TrimLeft(s))

\* a type compared as written
LowerAtom_AsWritten(a) == a

LowerAtom(a) ==
    IF a = "Shell" THEN "shell"
    ELSE IF a = "Process" THEN "process"
    ELSE IF a = "NPM" THEN "npm"
    ELSE a
\* strings.ToLower on a string of atoms
ToLowerStr(s) == [i \in 1 .. Len(s) |-> LowerAtom(s[i])]

\* a search that finds nothing
containsAnyRunes_Never(s, set) == FALSE

containsAnyRunes(s, set) == \E i \in 1 .. Len(s) : s[i] \in set
\* strings.Count
Count(s, a) == Cardinality({i \in 1 .. Len(s) : s[i] = a})
\* strings.ReplaceAll of one character by a string
RECURSIVE ReplaceAll(_, _, _)
ReplaceAll(s, old, new) ==
    IF s = <<>> THEN <<>>
    ELSE (IF Head(s) = old THEN new ELSE <<Head(s)>>) \o ReplaceAll(Tail(s), old, new)

(* ------------------ runner_helpers.go: the command line --------------- *)

\* the quoting that leaves a string with a single quote, or with an odd
\* number of double quotes, as it is
posixQuoteForShell_Heuristic(s) ==
    IF s = <<>> THEN <<DQ, DQ>>
    ELSE IF containsAnyRunes(s, {SQ}) \/ Count(s, DQ) % 2 = 1 THEN s
    ELSE IF containsAnyRunes(s, MetaChars \ {SQ})
    THEN <<DQ>> \o ReplaceAll(ReplaceAll(s, BS, <<BS, BS>>), DQ, <<BS, DQ>>) \o <<DQ>>
    ELSE s

posixQuoteForShell(s) ==
    IF s = <<>> THEN <<DQ, DQ>>
    ELSE IF containsAnyRunes(s, MetaChars)
    THEN <<DQ>> \o ReplaceAll(ReplaceAll(s, BS, <<BS, BS>>), DQ, <<BS, DQ>>) \o <<DQ>>
    ELSE s

\* the loop of buildCommandLine over the arguments, b being the builder
RECURSIVE WriteArgs(_, _)
WriteArgs(b, args) ==
    IF args = <<>> THEN b
    ELSE WriteArgs((IF Len(b) > 0 THEN b \o <<SP>> ELSE b) \o posixQuoteForShell(Head(args)),
                   Tail(args))

\* a command line in which the command is quoted like an argument
buildCommandLine_QuotesCommand(cmd, args) == WriteArgs(<<>>, <<cmd>> \o args)

\* buildCommandLine on POSIX
buildCommandLine(cmd, args) ==
    IF Len(args) = 0 THEN cmd
    ELSE WriteArgs(cmd, args)

(* --------------------------- buildCmd --------------------------------- *)

\* a word as a string
W(a) == <<a>>

\* exec.Cmd: SysProcAttr stands for the Setpgid attribute
NilCmd == [Path |-> <<>>, Args |-> <<>>, Dir |-> <<>>, Env |-> <<>>, SysProcAttr |-> FALSE]
\* exec.Command(name, arg...)
Command(name, arg) == [NilCmd EXCEPT !.Path = name, !.Args = <<name>> \o arg]

Built(cmd, cwd, environ) == [cmd |-> [cmd EXCEPT !.Dir = cwd, !.Env = environ], err |-> "nil"]
BuildError(e) == [cmd |-> NilCmd, err |-> e]

\* Type, Command, Script, Args and Options.Shell of tasks.Task
BuildTask(type, command, script, args, shell) ==
    [Type |-> type, Command |-> command, Script |-> script, Args |-> args, Shell |-> shell]
NoShell == [Executable |-> <<>>, Args |-> <<>>]

defaultShell == [exe |-> W("/bin/sh"), args |-> <<W("-c")>>]

\* tasks.ResolvePackageManagerExecutable with neither setting present
PackageManager == W("npm")

NpmBuiltins ==
    {"install", "ci", "publish", "pack", "update", "outdated", "rebuild", "version",
     "login", "logout", "whoami", "init", "create", "audit", "prune", "cache", "config",
     "root", "help", "search", "exec", "add", "remove", "link", "unlink", "run",
     "run-script"}

\* a list of subcommands that holds none
isNpmBuiltin_None(cmd) == FALSE

isNpmBuiltin(cmd) == Len(cmd) = 1 /\ cmd[1] \in NpmBuiltins

\* a separator that is written even when no argument follows
npmRun_AlwaysSeparator(name, rest) == <<W("run"), name, W("--")>> \o rest

\* "run", the script, and the arguments after "--" when there are any
npmRun(name, rest) ==
    <<W("run"), name>> \o (IF Len(rest) > 0 THEN <<W("--")>> \o rest ELSE <<>>)

\* the type buildCmd switches on
TaskType(t) ==
    LET typ == ToLowerStr(TrimSpace(t.Type))
    IN  IF typ = <<>> THEN W("shell") ELSE typ

\* case "npm"
buildNpm(t, cwd, environ) ==
    LET s == TrimSpace(t.Script)
        first == TrimSpace(t.Command)
        cmdName == IF first = <<>> /\ t.Args # <<>> THEN t.Args[1] ELSE first
        args == IF first = <<>> /\ t.Args # <<>> THEN Tail(t.Args) ELSE t.Args
    IN  IF s # <<>> THEN Built(Command(PackageManager, npmRun(s, t.Args)), cwd, environ)
        ELSE IF first = <<>> /\ Len(t.Args) = 0
        THEN BuildError("npm task missing command/script")
        ELSE IF cmdName \in {W("run"), W("run-script")}
        THEN IF Len(args) = 0 THEN BuildError("npm run requires a script name")
             ELSE Built(Command(PackageManager, npmRun(args[1], Tail(args))), cwd, environ)
        ELSE IF isNpmBuiltin(cmdName)
        THEN Built(Command(PackageManager, <<cmdName>> \o args), cwd, environ)
        ELSE Built(Command(PackageManager, npmRun(cmdName, args)), cwd, environ)

\* buildCmd with the command it builds (buildCmd above keeps its verdict only)
buildCmdOf(t, cwd, environ) ==
    LET typ == TaskType(t)
        override == t.Shell.Executable # <<>>
        shExe == IF override THEN t.Shell.Executable ELSE defaultShell.exe
        shArgs == IF override /\ Len(t.Shell.Args) > 0 THEN t.Shell.Args ELSE defaultShell.args
    IN  IF typ = W("process")
        THEN IF t.Command = <<>> THEN BuildError("process task has empty command")
             ELSE Built(Command(t.Command, t.Args), cwd, environ)
        ELSE IF typ = W("shell")
        THEN Built(Command(shExe, shArgs \o <<buildCommandLine(t.Command, t.Args)>>),
                   cwd, environ)
        ELSE IF typ = W("npm") THEN buildNpm(t, cwd, environ)
        ELSE BuildError("unsupported task type")

\* the working directory and the environment list handed to buildCmd
Cwd == W("/w")
Environ == <<W("K=V")>>

\* runTaskInternal: cmd, cleanup, err := buildCmd(eff, cwd, env); on an
\* error it returns, and otherwise the command gets a process group
BuildCmd ==
    /\ built.pc = "build"
    /\ LET r == buildCmdOf(built.task, Cwd, Environ)
       IN  built' = [built EXCEPT !.pc = "done", !.err = r.err,
                                  !.cmd = IF r.err = "nil"
                                          THEN [r.cmd EXCEPT !.SysProcAttr = TRUE]
                                          ELSE r.cmd]
    /\ UNCHANGED <<dvars, chain, tty, rvars, ivars>>

(* ---------------- startAndWait, one attempt at a time ----------------- *)

\* strings.HasSuffix(path, "/bash") || strings.HasSuffix(path, "bash")
IsBash(cmd) == cmd.Path # <<>> /\ cmd.Path[Len(cmd.Path)] \in {"/bin/bash", "bash"}

cloneCmdNoSysProc(orig) ==
    [Command(orig.Path, Tail(orig.Args)) EXCEPT !.Dir = orig.Dir, !.Env = orig.Env]

\* a rebuilt command that loses the environment and the directory
rebuildWithSh_Bare(orig) ==
    IF Len(orig.Args) = 0 THEN NilCmd ELSE Command(W("/bin/sh"), Tail(orig.Args))

rebuildWithSh(orig) ==
    IF Len(orig.Args) = 0 THEN NilCmd
    ELSE [Command(W("/bin/sh"), Tail(orig.Args))
             EXCEPT !.Dir = orig.Dir, !.Env = orig.Env, !.SysProcAttr = orig.SysProcAttr]

\* what cmd.Wait() reports for a process that was started
ExitResults == {"nil", "exit"}

\* the call startAndWait(ctx, cmd, true)
EnterChain(cmd, round, tried) ==
    [pc |-> IF env.pty THEN "pty1" ELSE "stdio0", round |-> round, cmd |-> cmd,
     clone |-> NilCmd, tried |-> tried, ret |-> "none"]

\* an attempt made: the command it ran, the outcome of its start, and its
\* error (the start error, or what the started process exited with)
Attempt(a, cmd, o, err) == [round |-> chain.round, a |-> a, cmd |-> cmd, o |-> o, err |-> err]
Tried(a, cmd, o, err) == Append(chain.tried, Attempt(a, cmd, o, err))

ChainReturn(a, cmd, o, err, ret) ==
    chain' = [chain EXCEPT !.pc = "returned", !.ret = ret, !.tried = Tried(a, cmd, o, err)]
ChainGoto(a, cmd, o, err, pc) ==
    chain' = [chain EXCEPT !.pc = pc, !.tried = Tried(a, cmd, o, err)]

\* runTaskInternal: err = startAndWait(ctx, cmd, true)
StartAndWait ==
    /\ built.pc = "done"
    /\ built.err = "nil"
    /\ chain.pc = "off"
    /\ chain' = EnterChain(built.cmd, 1, <<>>)
    /\ UNCHANGED <<dvars, built, tty, rvars, ivars>>

\* (1) PTY + current SysProcAttr
TryPty1 ==
    /\ chain.pc = "pty1"
    /\ \E o \in StartOutcomes : \E res \in ExitResults :
          IF o = "ok" THEN ChainReturn("pty1", chain.cmd, o, res, res)
          ELSE IF isExecPermissionError(o)
          THEN chain' = [chain EXCEPT !.pc = "pty2", !.clone = cloneCmdNoSysProc(chain.cmd),
                                      !.tried = Tried("pty1", chain.cmd, o, o)]
          ELSE ChainGoto("pty1", chain.cmd, o, o, "stdio0")
    /\ UNCHANGED <<dvars, built, tty, rvars, ivars>>

\* (2) PTY + no SysProcAttr
TryPty2 ==
    /\ chain.pc = "pty2"
    /\ \E o \in StartOutcomes : \E res \in ExitResults :
          IF o = "ok" THEN ChainReturn("pty2", chain.clone, o, res, res)
          ELSE ChainGoto("pty2", chain.clone, o, o, "stdio3")
    /\ UNCHANGED <<dvars, built, tty, rvars, ivars>>

\* (3) stdio + no SysProcAttr: err3 is the start error, or the exit result
TryStdio3 ==
    /\ chain.pc = "stdio3"
    /\ \E o \in StartOutcomes : \E res \in ExitResults :
          LET err3 == IF o = "ok" THEN res ELSE o
          IN  IF err3 = "nil" THEN ChainReturn("stdio3", chain.clone, o, err3, "nil")
              ELSE IF shouldFallbackToSh(IsBash(chain.clone), err3)
              THEN ChainGoto("stdio3", chain.clone, o, err3, "sh4")
              ELSE ChainReturn("stdio3", chain.clone, o, err3, err3)
    /\ UNCHANGED <<dvars, built, tty, rvars, ivars>>

\* (4) stdio + no SysProcAttr + /bin/sh
TrySh4 ==
    /\ chain.pc = "sh4"
    /\ \E o \in StartOutcomes : \E res \in ExitResults :
          LET err4 == IF o = "ok" THEN res ELSE o
          IN  ChainReturn("sh4", rebuildWithSh(chain.clone), o, err4, err4)
    /\ UNCHANGED <<dvars, built, tty, rvars, ivars>>

\* the stdio path with the original command: the error of startAndWaitStdio
\* is local to the if statement, and retErr, which is what the fallback test
\* and the return statement read, is nil
TryStdio0 ==
    /\ chain.pc = "stdio0"
    /\ \E o \in StartOutcomes : \E res \in ExitResults : \E o2 \in StartOutcomes :
          LET err == IF o = "ok" THEN res ELSE o
              retErr == "nil"
              err2 == IF o2 = "ok" THEN res ELSE o2
          IN  IF err = "nil" THEN ChainReturn("stdio0", chain.cmd, o, err, "nil")
              ELSE IF shouldFallbackToSh(IsBash(chain.cmd), retErr)
              THEN chain' = [chain EXCEPT
                                !.pc = "returned", !.ret = err2,
                                !.tried = Tried("stdio0", chain.cmd, o, err)
                                            \o <<Attempt("sh0", rebuildWithSh(chain.cmd), o2, err2)>>]
              ELSE ChainReturn("stdio0", chain.cmd, o, err, retErr)
    /\ UNCHANGED <<dvars, built, tty, rvars, ivars>>

\* runTaskInternal: if bash was blocked, startAndWait once more with /bin/sh
RetryWithSh ==
    /\ chain.pc = "returned"
    /\ chain.round = 1
    /\ chain.ret # "nil"
    /\ shouldFallbackToSh(IsBash(built.cmd), chain.ret)
    /\ rebuildWithSh(built.cmd) # NilCmd
    /\ chain' = EnterChain(rebuildWithSh(built.cmd), 2, chain.tried)
    /\ UNCHANGED <<dvars, built, tty, rvars, ivars>>

(* ------------------- the command builder, exercised ------------------- *)

\* most arguments of a task handed to buildCmd
MaxCmdArgs == 2
\* most atoms of a string handed to buildCommandLine
MaxLen == 3

BashShell == [Executable |-> W("/bin/bash"), Args |-> <<W("-lc")>>]
\* an override of the executable that keeps the default arguments
BashNoArgs == [Executable |-> W("/bin/bash"), Args |-> <<>>]

CmdWords == {W("ci"), W("run"), W("build"), W("--fix")}
CmdCommands == {<<>>, W("ci"), W("lint"), <<SP, "lint">>, W("run"), W("run-script")}
CmdArgs == SeqsUpTo(CmdWords, MaxCmdArgs)

CmdTasks ==
    {BuildTask(ty, c, sc, a, NoShell) :
        ty \in {W("npm"), W("NPM")}, c \in CmdCommands,
        sc \in {<<>>, W("build"), <<SP, "build">>}, a \in CmdArgs}
    \cup {BuildTask(ty, c, <<>>, a, sh) :
        ty \in {<<>>, W("shell"), W("Shell")}, c \in CmdCommands, a \in CmdArgs,
        sh \in {NoShell, BashShell, BashNoArgs}}
    \cup {BuildTask(ty, c, <<>>, a, NoShell) :
        ty \in {W("process"), <<"Process", SP>>, W("other")}, c \in CmdCommands, a \in CmdArgs}

InitBuilt(ts) ==
    /\ InitRunner({Task(RootLabel, <<>>, "", FALSE, "none", "shell", FALSE)}, {"ok"}, 0)
    /\ NoInputRefs
    /\ tty = "cooked"
    /\ built \in {[pc |-> "build", task |-> t, cmd |-> NilCmd, err |-> "nil"] : t \in ts}
    /\ chain = [pc |-> "off"]

\* tasks of every type are built and started
InitCmd == InitBuilt(CmdTasks)

NextCmd ==
    \/ BuildCmd
    \/ StartAndWait
    \/ TryPty1
    \/ TryPty2
    \/ TryStdio3
    \/ TrySh4
    \/ TryStdio0
    \/ RetryWithSh

SpecCmd == InitCmd /\ [][NextCmd]_vars

Alphabet == {"a"} \cup MetaChars
Strings == SeqsUpTo(Alphabet, MaxLen)

\* the arguments of TestBuildCommandLine_Posix_QuotesOnlyArgs: a blank, a
\* dollar sign, an embedded double quote
TestArgs == <<<<"a", SP, "a">>, <<"$", "a">>, <<"a", DQ, "a">>>>
SecondArgs == {<<>>, W("a"), <<"$", "a">>}
LineCommands == {<<>>, W("a"), <<"a", SP, "$">>}

\* shell tasks over every string of the alphabet: any command without
\* arguments, and a few commands with one or two arguments, or with the three
\* of the test
LineTasks ==
    {BuildTask(<<>>, c, <<>>, <<>>, NoShell) : c \in Strings}
    \cup {BuildTask(<<>>, c, <<>>, <<a>>, NoShell) : c \in LineCommands, a \in Strings}
    \cup {BuildTask(<<>>, c, <<>>, <<a, b>>, NoShell) :
            c \in LineCommands, a \in Strings, b \in SecondArgs}
    \cup {BuildTask(<<>>, c, <<>>, TestArgs, NoShell) : c \in LineCommands}

InitLine ==
    /\ InitBuilt(LineTasks)
    /\ env.pty = FALSE

NextLine == BuildCmd

SpecLine == InitLine /\ [][NextLine]_vars

(* ------------------ runTaskInternal: the substitutions ---------------- *)

\* longest command of the substituted tasks, in tokens
MaxTokens == 2

\* A string of the task file is a sequence of tokens: a word, a reference
\* to the input x, or a reference to a built-in variable.
InputToken == "${input:x}"
VarNames == {"workspaceFolder", "cwd", "execPath"}
VarToken(k) ==
    IF k = "workspaceFolder" THEN "${workspaceFolder}"
    ELSE IF k = "cwd" THEN "${cwd}"
    ELSE "${execPath}"

\* reInput.ReplaceAllStringFunc: every ${input:x} becomes the value
\* r.Resolve returns, and the value is not scanned again
replaceInputs(s, val) == IF s = <<>> THEN s ELSE ReplaceAll(s, InputToken, val)

\* one strings.ReplaceAll per variable, in the order the map is ranged over
RECURSIVE substituteVars(_, _, _)
substituteVars(s, m, order) ==
    IF s = <<>> \/ order = <<>> THEN s
    ELSE substituteVars(ReplaceAll(s, VarToken(Head(order)), m[Head(order)]), m, Tail(order))

\* the orders in which range may visit the keys of the map
Orders3 ==
    {o \in [1 .. 3 -> VarNames] : \A i, j \in 1 .. 3 : o[i] = o[j] => i = j}

Workspace == <<"ws">>
\* mustGetwd(): the directory of the runner
ProcessCwd == <<"wd">>

\* ${execPath} comes from VSCODE_EXEC_PATH
buildVSCodeVarMapWithCWD(cwd) ==
    [workspaceFolder |-> Workspace, cwd |-> cwd, execPath |-> subst.execPath]

\* filepath.Join(workspace, cwdr) for a relative cwdr; the workspace when the
\* task has no cwd option
EffectiveCwd(cwdr) == IF cwdr = <<>> THEN Workspace ELSE Workspace \o <<"/">> \o cwdr

\* the variables before the inputs
Passes_VarsFirst == <<"vars", "inputs">>

\* each string goes through replaceInputs, then through substituteVars
Passes == <<"inputs", "vars">>

\* One assignment of runTaskInternal: the next pass over the string at
\* position pos (1 the cwd option, 2 the command, then the args, last the
\* environment value); the cwd option is substituted with the variables of
\* the runner's directory, the others with those of the effective cwd.
Substitute ==
    /\ subst.pc = "subst"
    /\ \E order \in Orders3 :
          LET pos == subst.pos
              m == buildVSCodeVarMapWithCWD(IF pos = 1 THEN ProcessCwd ELSE subst.cwd)
              cur == subst.eff[pos]
              out == IF Passes[subst.pass] = "inputs" THEN replaceInputs(cur, subst.val)
                     ELSE substituteVars(cur, m, order)
              last == subst.pass = 2
          IN  subst' = [subst EXCEPT
                           !.eff[pos] = out,
                           !.pass = IF last THEN 1 ELSE 2,
                           !.pos = IF last THEN pos + 1 ELSE pos,
                           !.cwd = IF last /\ pos = 1 THEN EffectiveCwd(out) ELSE @,
                           !.pc = IF last /\ pos = Len(subst.eff) THEN "done" ELSE @]
    /\ UNCHANGED <<cvars, tty, rvars, ivars, walk>>

SubstTokens == {"lit", InputToken, "${cwd}", "${execPath}"}
\* the values the input x may have: empty (also what a failed resolution
\* gives), a word, text that holds a variable, text that holds the input
InputValues == {<<>>, <<"v">>, <<"${cwd}">>, <<InputToken>>}
ExecPaths == {<<"code">>, <<InputToken>>, <<"${cwd}">>}

SubstTasks ==
    {<<cwd, command>> \o args \o <<ev>> :
        cwd \in {<<>>, <<InputToken>>},
        command \in SeqsUpTo(SubstTokens, MaxTokens),
        args \in SeqsUpTo({<<InputToken>>, <<"${cwd}">>}, MaxArgs),
        ev \in {<<"${execPath}">>, <<InputToken, "lit">>}}

InitSubst ==
    /\ index = indexByLabel(Task(RootLabel, <<>>, "", FALSE, "none", "shell", FALSE))
    /\ env = [pty |-> FALSE, outcomes |-> {"ok"}, sigLeft |-> 0]
    /\ main = [pc |-> "begin", k |-> 1, ret |-> "none", lbl |-> "", cause |-> "none"]
    /\ run = [s \in Slots |-> IdleRun]
    /\ proc = [s \in Slots |-> NoProc]
    /\ errCh = <<>>
    /\ started = <<>>
    /\ NoInputRefs
    /\ NoCommand
    /\ tty = "cooked"
    /\ walk = [pc |-> "off"]
    /\ \E t \in SubstTasks, val \in InputValues, e \in ExecPaths :
          subst = [pc |-> "subst", pos |-> 1, pass |-> 1, task |-> t, eff |-> t,
                   cwd |-> Workspace, val |-> val, execPath |-> e]

NextSubst == Substitute

SpecSubst == InitSubst /\ [][NextSubst]_vars

(* --------------- run_task.go: runSingleTaskWithDeps ------------------- *)

\* A call of the closure run is named by the path of labels that leads to
\* it from the task runSingleTaskWithDeps was given.
NilErr == [kind |-> "nil", lbl |-> ""]
Err(kind, lbl) == [kind |-> kind, lbl |-> lbl]
\* k: the position in DependsOn; errs: the errCh of the parallel branch
NewFrame == [pc |-> "enter", k |-> 1, ret |-> NilErr, errs |-> <<>>]

FrameLabel(p) == p[Len(p)]
FrameTask(p) == index[FrameLabel(p)]
FrameDeps(p) == FrameTask(p).DependsOn
Parent(p) == SubSeq(p, 1, Len(p) - 1)
IsSeqFrame(p) == ToLower(FrameTask(p).DependsOrder) = "sequence"

\* return from run: the caller reads the result, which a parallel branch
\* sends on the errCh of its parent when it is an error
WalkReturn(p, ret) ==
    LET done == [walk.frames EXCEPT ![p].pc = "done", ![p].ret = ret]
    IN  walk' = [walk EXCEPT !.frames =
                    IF Len(p) > 1 /\ ~IsSeqFrame(Parent(p)) /\ ret.kind # "nil"
                    THEN [done EXCEPT ![Parent(p)].errs = Append(@, ret)]
                    ELSE done]

\* go run(dep), or the call run(dep) of the sequence loop
WalkCall(p, child, pc, k) ==
    walk' = [walk EXCEPT !.frames =
                (child :> NewFrame) @@ [walk.frames EXCEPT ![p].pc = pc, ![p].k = k]]

\* seen := map[string]bool{}; return run(t)
runSingleTaskWithDeps ==
    /\ walk.pc = "call"
    /\ walk' = [walk EXCEPT !.pc = "on", !.frames = (<<RootLabel>> :> NewFrame)]
    /\ UNCHANGED <<cvars, tty, rvars, ivars, subst>>

\* if seen[tt.Label] { return cycle detected }
VisitCheck(p) ==
    /\ walk.frames[p].pc = "enter"
    /\ IF FrameLabel(p) \in walk.seen
       THEN WalkReturn(p, Err("cycle", FrameLabel(p)))
       ELSE walk' = [walk EXCEPT !.frames[p].pc = "mark"]
    /\ UNCHANGED <<cvars, tty, rvars, ivars, subst>>

\* seen[tt.Label] = true, and the switch on DependsOrder
VisitMark(p) ==
    /\ walk.frames[p].pc = "mark"
    /\ walk' = [walk EXCEPT
                   !.seen = @ \cup {FrameLabel(p)},
                   !.frames[p].pc = IF FrameDeps(p) = <<>> THEN "run"
                                    ELSE IF IsSeqFrame(p) THEN "seq" ELSE "par"]
    /\ UNCHANGED <<cvars, tty, rvars, ivars, subst>>

\* one iteration of the sequence loop: the result of the previous run(dep),
\* then the lookup and the call of the next
VisitSeqStep(p) ==
    LET f == walk.frames[p]
        prev == Append(p, FrameDeps(p)[f.k - 1])
    IN  /\ f.pc = "seq"
        /\ f.k > 1 => walk.frames[prev].pc = "done"
        /\ IF f.k > 1 /\ walk.frames[prev].ret.kind # "nil"
           THEN WalkReturn(p, walk.frames[prev].ret)
           ELSE IF f.k > Len(FrameDeps(p))
           THEN walk' = [walk EXCEPT !.frames[p].pc = "run"]
           ELSE IF ~Lookup(FrameDeps(p)[f.k])
           THEN WalkReturn(p, Err("notfound", FrameDeps(p)[f.k]))
           ELSE WalkCall(p, Append(p, FrameDeps(p)[f.k]), "seq", f.k + 1)
        /\ UNCHANGED <<cvars, tty, rvars, ivars, subst>>

\* one iteration of the parallel loop: the lookup, then the go statement
VisitParSpawn(p) ==
    LET f == walk.frames[p]
    IN  /\ f.pc = "par"
        /\ IF ~Lookup(FrameDeps(p)[f.k])
           THEN WalkReturn(p, Err("notfound", FrameDeps(p)[f.k]))
           ELSE WalkCall(p, Append(p, FrameDeps(p)[f.k]),
                         IF f.k = Len(FrameDeps(p)) THEN "wgwait" ELSE "par", f.k + 1)
        /\ UNCHANGED <<cvars, tty, rvars, ivars, subst>>

\* wg.Wait(), close(errCh) and the range over errCh
VisitParWait(p) ==
    LET f == walk.frames[p]
    IN  /\ f.pc = "wgwait"
        /\ \A k \in 1 .. Len(FrameDeps(p)) :
               walk.frames[Append(p, FrameDeps(p)[k])].pc = "done"
        /\ IF f.errs # <<>> THEN WalkReturn(p, Head(f.errs))
           ELSE walk' = [walk EXCEPT !.frames[p].pc = "run"]
        /\ UNCHANGED <<cvars, tty, rvars, ivars, subst>>

\* return runSingleTask(tt, root): the process of the task is started and
\* waited for
runSingleTask(p) ==
    /\ walk.frames[p].pc = "run"
    /\ \E code \in {0, 1} :
          LET done == [walk EXCEPT !.starts[FrameLabel(p)] = @ + 1]
              ret == IF code = 0 THEN NilErr ELSE Err("exit", FrameLabel(p))
          IN  walk' = [done EXCEPT !.frames =
                          IF Len(p) > 1 /\ ~IsSeqFrame(Parent(p)) /\ ret.kind # "nil"
                          THEN [walk.frames EXCEPT ![p].pc = "done", ![p].ret = ret,
                                                   ![Parent(p)].errs = Append(@, ret)]
                          ELSE [walk.frames EXCEPT ![p].pc = "done", ![p].ret = ret]]
    /\ UNCHANGED <<cvars, tty, rvars, ivars, subst>>

\* The task files walked: the task given depends on "a", on "a" and "b", or
\* on a label that is missing; "a" and "b" may share the dependency "w" (a
\* diamond), and "a" may depend on the task given or on itself (a cycle).
WalkGraphs ==
    {[l \in Labels |->
         IF l = RootLabel THEN Task(l, rd, ro, FALSE, "none", "shell", FALSE)
         ELSE IF l = "a" THEN Task(l, ad, o, FALSE, "none", "shell", FALSE)
         ELSE IF l = "b" THEN Task(l, bd, o, FALSE, "none", "shell", FALSE)
         ELSE Task(l, <<>>, "", FALSE, "none", "shell", FALSE)] :
        rd \in {<<>>, <<"a">>, <<"a", "b">>, <<"a", MissingLabel>>},
        ro \in {"sequence", "Sequence", "parallel", ""},
        ad \in {<<>>, <<"w">>, <<RootLabel>>, <<"a">>, <<"w", "v">>},
        bd \in {<<>>, <<"w">>},
        o \in {"sequence", ""}}

InitWalk ==
    /\ index \in WalkGraphs
    /\ env = [pty |-> FALSE, outcomes |-> {"ok"}, sigLeft |-> 0]
    /\ main = [pc |-> "begin", k |-> 1, ret |-> "none", lbl |-> "", cause |-> "none"]
    /\ run = [s \in Slots |-> IdleRun]
    /\ proc = [s \in Slots |-> NoProc]
    /\ errCh = <<>>
    /\ started = <<>>
    /\ NoInputRefs
    /\ NoCommand
    /\ tty = "cooked"
    /\ subst = [pc |-> "off"]
    /\ walk = [pc |-> "call", seen |-> {}, frames |-> <<>>, starts |-> [l \in Labels |-> 0]]

NextWalk ==
    \/ runSingleTaskWithDeps
    \/ \E p \in DOMAIN walk.frames : VisitCheck(p)
    \/ \E p \in DOMAIN walk.frames : VisitMark(p)
    \/ \E p \in DOMAIN walk.frames : VisitSeqStep(p)
    \/ \E p \in DOMAIN walk.frames : VisitParSpawn(p)
    \/ \E p \in DOMAIN walk.frames : VisitParWait(p)
    \/ \E p \in DOMAIN walk.frames : runSingleTask(p)

SpecWalk == InitWalk /\ [][NextWalk]_vars

(* ------------------------- the dependency graph ----------------------- *)

Range(q) == {q[i] : i \in 1 .. Len(q)}

DirectDeps(l) == IF l \in DOMAIN index THEN Range(index[l].DependsOn) ELSE {}

RECURSIVE ReachN(_, _)
ReachN(S, n) ==
    IF n = 0 THEN S ELSE ReachN(S \cup UNION {DirectDeps(l) : l \in S}, n - 1)

\* the labels a task depends on, directly or transitively
Closure(l) == ReachN(DirectDeps(l), Cardinality(Labels))

\* the labels that lie on a cycle reachable from the requested task
CycleLabels == {l \in {RootLabel} \cup Closure(RootLabel) : l \in Closure(l)}

Launched(s) == proc[s].st # "none"
Satisfied(s) == run[s].pc = "done" /\ run[s].ret = "nil"
\* the run of slot s has failed: it returned an error, or its process was
\* seen to exit with a non-zero status
Failed(s) == run[s].pc = "done" /\ (run[s].ret # "nil" \/ run[s].saw = 1)
LabelSatisfied(l) == \E s \in 0 .. NDeps : SlotLabel(s) = l /\ Satisfied(s)

(* ------------------------------- claims ------------------------------- *)

\* C1: with dependsOrder "sequence" the dependencies are started one at a
\* time in listed order, each only after the previous one is satisfied, and
\* once the dependency at position i has failed (a non-zero exit included)
\* no dependency after it and not the requested task is started.
C1_SequenceStopsAtFirstFailure ==
    index[RootLabel].DependsOrder = "sequence" =>
        /\ \A i \in 1 .. Len(started) : started[i] \in {i, 0}
        /\ \A s \in 0 .. NDeps : \A i \in 1 .. NDeps :
              (Launched(s) /\ (s = 0 \/ i < s)) => (Satisfied(i) /\ ~Failed(i))

\* C2: a process that exits with a non-zero status makes the run return
\* that exit error, whichever of the PTY and stdio attempts launched it.
C2_NonZeroExitIsReturned ==
    \A s \in Slots :
        (run[s].pc = "done" /\ run[s].path \in Attempts /\ run[s].saw = 1)
            => run[s].ret = "exit"

\* C3: before the process of a dependency D of the requested task is
\* started, every task D depends on, directly or transitively, has been run
\* and satisfied.
C3_DependenciesOfDependenciesFirst ==
    \A s \in 1 .. NDeps :
        Launched(s) => \A l \in Closure(SlotLabel(s)) : LabelSatisfied(l)

\* C4: when a cycle is reachable from the requested task, RunTask returns a
\* cycle-detected error that names a label of the cycle (stated for the runs
\* in which no label is missing and no process fails).
C4_CycleIsReported ==
    (/\ main.pc = "returned"
     /\ CycleLabels # {}
     /\ MissingLabel \notin Range(RootDeps)
     /\ \A s \in Slots : ~Failed(s))
        => (main.ret = "cycle" /\ main.lbl \in CycleLabels)

\* RunTask is blocked on a dependency: in wg.Wait(), or in the call of the
\* sequence loop
MainWaitsOnDep ==
    \/ main.pc = "wgwait"
    \/ main.pc = "seq" /\ main.k > 1 /\ run[main.k - 1].pc # "done"

AllLaunched == \A s \in 1 .. NDeps : run[s].pc # "idle"

LaunchedBeforeAnyWait ==
    /\ MainWaitsOnDep => AllLaunched
    /\ main.pc = "par" => ENABLED RunTaskParSpawn

\* C5 as stated: for every dependsOrder other than "sequence", every
\* dependency is launched before RunTask waits on any of them.
C5_AnyOtherValueIsParallel ==
    index[RootLabel].DependsOrder # "sequence" => LaunchedBeforeAnyWait

\* C5 as amended: for every dependsOrder that is not "sequence" in any
\* letter case, every dependency is launched before RunTask waits on any of
\* them, and the launch loop is never blocked on a branch.
C5_ParallelLaunchesAllFirst ==
    ToLower(index[RootLabel].DependsOrder) # "sequence" => LaunchedBeforeAnyWait

C5_Witness ==
    /\ ~IsSequence
    /\ NDeps >= 2
    /\ main.pc = "wgwait"
    /\ \A s \in 1 .. NDeps : proc[s].st = "running"

FailedBranches == {s \in 1 .. NDeps : run[s].pc = "done" /\ run[s].ret # "nil"}

ReportsOneBranchError ==
    FailedBranches # {} =>
        /\ main.ret = "depfailed"
        /\ \E s \in FailedBranches : main.lbl = RootDeps[s] /\ main.cause = run[s].ret
        /\ run[0].pc = "idle"
        /\ ~Launched(0)

FailureLeavesSiblings ==
    \A s \in 1 .. NDeps : \A t \in 1 .. NDeps :
        (s # t /\ run[s].pc # "done" /\ run'[s].pc = "done" /\ run'[s].ret # "nil")
            => (run'[t] = run[t] /\ proc'[t] = proc[t])

HasMissing == MissingLabel \in Range(RootDeps)
FirstMissing == CHOOSE i \in 1 .. NDeps :
                    RootDeps[i] = MissingLabel /\ \A j \in 1 .. (i - 1) : RootDeps[j] # MissingLabel

\* C7 as stated: a missing dependency label makes RunTask return an error
\* that names it, and the requested task is never started.
C7_MissingLabelIsNamed ==
    HasMissing =>
        /\ ~Launched(0)
        /\ main.pc = "returned" => (main.ret = "notfound" /\ main.lbl = MissingLabel)

\* C7 as amended: a missing dependency label makes RunTask return an error
\* and the requested task is never started; the error names the missing
\* label, unless in sequence mode a dependency listed before it failed, and
\* then the error is that dependency's failure.
C7_MissingLabelFails ==
    HasMissing =>
        /\ ~Launched(0)
        /\ run[0].pc = "idle"
        /\ main.pc = "returned" =>
              \/ main.ret = "notfound" /\ main.lbl = MissingLabel
              \/ /\ IsSequence
                 /\ main.ret = "depfailed"
                 /\ \E i \in 1 .. (FirstMissing - 1) :
                        main.lbl = RootDeps[i] /\ run[i].pc = "done" /\ run[i].ret # "nil"

C7_Witness ==
    /\ HasMissing
    /\ main.pc = "returned"
    /\ main.ret = "notfound"
    /\ main.lbl = MissingLabel
    /\ FirstMissing > 1

\* C8 as stated: when a label of the list is missing no process is started
\* at all.
C8_MissingLabelStartsNothing == HasMissing => started = <<>>

\* C8 as amended: when a label of the list is missing no process is started
\* for the requested task nor for a dependency listed at or after the first
\* missing label; the dependencies listed before it are run (sequence) or
\* launched (parallel) all the same.
C8_MissingLabelStopsTheRest ==
    HasMissing => \A s \in Slots : Launched(s) => s \in 1 .. (FirstMissing - 1)

C8_Witness ==
    /\ HasMissing
    /\ ~IsSequence
    /\ main.pc = "returned"
    /\ Launched(1)

\* C9: the requested task is waited on until its process exits, whatever
\* its background flag and matcher: RunTask has not returned while the
\* process it started for the requested task runs, unless the run was
\* cancelled.
C9_RootRunsToExit ==
    (main.pc = "returned" /\ Launched(0)) => (proc[0].st = "exited" \/ run[0].ctxDone)

C9_Witness ==
    /\ main.pc = "returned"
    /\ NDeps > 0
    /\ extractBgMatcher(index[RootLabel]) # "nil"
    /\ proc[0].st = "exited"
    /\ ~run[0].ctxDone

IsReadyDep(s) ==
    /\ Lookup(RootDeps[s])
    /\ extractBgMatcher(SlotTask(s)) # "nil"
    /\ proc[s].st = "running"
    /\ proc[s].ready

\* C10: a background dependency with a usable matcher is satisfied as soon
\* as it is ready: while its process still runs the run call can return, it
\* returns success, and the sequence loop can go on to the next dependency
\* or to the requested task.
C10_ReadyDependencySatisfied ==
    \A s \in 1 .. NDeps :
        IsReadyDep(s) =>
            /\ run[s].pc = "wait" => ENABLED SelectReady(s)
            /\ run[s].pc = "done" => Satisfied(s)
            /\ (run[s].pc = "done" /\ main.pc = "seq" /\ main.k = s + 1)
                  => ENABLED RunTaskSeqStep

C10_Witness ==
    \E s \in 1 .. NDeps :
        /\ IsSequence
        /\ IsReadyDep(s)
        /\ run[s].pc = "done"
        /\ \E t \in ((s + 1) .. NDeps) \cup {0} : Launched(t)

IsReadyRun(s) == run[s].path = "ready"

\* the matcher is active on start, or the first line printed matched the
\* begin pattern
ReadinessDue(s) ==
    extractBgMatcher(SlotTask(s)) = "activeOnStart" \/ proc[s].out = "match"

\* C11: in readiness-gated mode, when the matcher is active on start
\* (whatever the process has printed, nothing included) or the first line
\* matched the begin pattern, the run call can return success while the
\* process still runs.
C11_ReadinessReturnsBeforeExit ==
    \A s \in Slots :
        (IsReadyRun(s) /\ run[s].pc = "wait" /\ proc[s].st = "running"
            /\ ~run[s].ctxDone /\ ReadinessDue(s))
            => ENABLED SelectReady(s)

\* C12: in readiness-gated mode a run call that returns without readiness
\* having fired (and without cancellation) returns the exit result of the
\* process: nil for a zero exit, the exit error for a non-zero exit.
C12_ExitBeforeReadyIsReturned ==
    \A s \in Slots :
        (IsReadyRun(s) /\ run[s].pc = "done" /\ ~proc[s].ready /\ ~run[s].ctxDone)
            => /\ proc[s].st = "exited"
               /\ run[s].saw = proc[s].code
               /\ proc[s].code = 0 => run[s].ret = "nil"
               /\ proc[s].code # 0 => run[s].ret = "exit"

C12_Witness ==
    \E s \in Slots :
        /\ IsReadyRun(s)
        /\ run[s].pc = "done"
        /\ ~proc[s].ready
        /\ ~run[s].ctxDone
        /\ proc[s].code = 1
        /\ run[s].ret = "exit"

C19_CancelledRunReturnsExitOrKilled ==
    \A s \in Slots :
        (run[s].path \in Attempts /\ run[s].pc = "done" /\ run[s].ctxDone
            /\ proc[s].signalled)
            => IF run[s].saw = -1 THEN run[s].ret = "killed"
               ELSE (run[s].saw = 0 /\ run[s].ret = "nil")
                        \/ (run[s].saw # 0 /\ run[s].ret = "exit")

\* C20: once the graceful signal has been sent to the group of a task, the
\* forceful kill signal is sent to the group as well (never before it), so
\* that no process of the group is left when the runner has exited.
C20_GroupIsKilled ==
    \A s \in Slots :
        /\ proc[s].killed => proc[s].signalled
        /\ (main.pc = "exited" /\ proc[s].signalled) => proc[s].killed

ChainOn == chain.pc # "off"
\* the attempts startAndWait made in its first call (round 1) and in the
\* call runTaskInternal makes with /bin/sh (round 2)
RoundTried(r) == SelectSeq(chain.tried, LAMBDA e : e.round = r)
FallbackOrder == <<"pty1", "pty2", "stdio3", "sh4">>

\* C21: when the start under the pseudo-terminal fails with an
\* execution-permission-class error, the attempts startAndWait makes are, in
\* this order and up to the first one that starts: PTY without the process
\* group, stdio without the process group, and, only after a permission/path
\* failure of a bash-family executable, stdio with /bin/sh; startAndWait
\* returns only once an attempt has started or the chain is exhausted, and
\* what it returns is the error of the last attempt made.
C21_FallbackChain ==
    ChainOn =>
        \A r \in 1 .. 2 :
            LET tr == RoundTried(r)
                n == Len(tr)
            IN  (n > 0 /\ tr[1].a = "pty1" /\ tr[1].o = "perm") =>
                    /\ n <= 4
                    /\ \A i \in 1 .. n : tr[i].a = FallbackOrder[i]
                    /\ \A i \in 1 .. (n - 1) : tr[i].o # "ok"
                    /\ \A i \in 2 .. n : ~tr[i].cmd.SysProcAttr
                    /\ \A i \in 1 .. n :
                          IF i = 4
                          THEN /\ tr[4].cmd.Path = W("/bin/sh")
                               /\ IsBash(tr[3].cmd)
                               /\ tr[3].o = "perm"
                          ELSE tr[i].cmd.Path = tr[1].cmd.Path
                    /\ (chain.round = r /\ chain.pc # "returned")
                          => (n < 4 /\ chain.pc = FallbackOrder[n + 1])
                    /\ (chain.round = r /\ chain.pc = "returned") =>
                          /\ chain.ret = tr[n].err
                          /\ tr[n].o # "ok" =>
                                \/ n = 4
                                \/ n = 3 /\ ~(IsBash(tr[3].cmd) /\ tr[3].o = "perm")

C21_Witness ==
    /\ ChainOn
    /\ chain.pc = "returned"
    /\ chain.round = 1
    /\ Len(chain.tried) = 4
    /\ chain.tried[1].o = "perm"
    /\ chain.tried[2].o = "other"
    /\ chain.tried[3].o = "perm"
    /\ chain.tried[4].a = "sh4"
    /\ chain.tried[4].o = "other"
    /\ chain.ret = "other"

\* the second command is the first with /bin/sh as its executable and argv[0]
SwapsOnlyExe(orig, c) ==
    /\ c.Path = W("/bin/sh")
    /\ Len(c.Args) = Len(orig.Args)
    /\ c.Args[1] = W("/bin/sh")
    /\ Tail(c.Args) = Tail(orig.Args)
    /\ c.Dir = orig.Dir
    /\ c.Env = orig.Env
    /\ c.SysProcAttr = orig.SysProcAttr

\* C22: each command rebuildWithSh has produced (for the fourth attempt of
\* the chain, and for the second call of startAndWait) has /bin/sh as
\* argv[0] and the remaining arguments, the environment and the working
\* directory of the command it was made from.
C22_RebuildSwapsOnlyExe ==
    ChainOn =>
        /\ \A i \in 2 .. Len(chain.tried) :
              chain.tried[i].a = "sh4"
                  => SwapsOnlyExe(chain.tried[i - 1].cmd, chain.tried[i].cmd)
        /\ chain.round = 2 => SwapsOnlyExe(built.cmd, chain.cmd)

C22_Witness ==
    /\ ChainOn
    /\ chain.round = 2
    /\ Len(built.cmd.Args) = 3
    /\ chain.cmd.Args[1] = W("/bin/sh")
    /\ chain.cmd.Args[2] = W("-lc")
    /\ chain.cmd.Dir = Cwd
    /\ chain.cmd.Env = Environ

BuiltOk == built.pc = "done" /\ built.err = "nil"
BuiltFailed == built.pc = "done" /\ built.err # "nil" /\ built.cmd = NilCmd
Argv == built.cmd.Args

\* a type, a script and a command as the builder reads them: letter case and
\* surrounding blanks do not count
TypeIs(names) == built.task.Type \in names
ShellTypes == {<<>>, W("shell"), W("Shell")}
ProcessTypes == {W("process"), <<"Process", SP>>}
NpmTypes == {W("npm"), W("NPM")}
Unblank(s) == IF s # <<>> /\ Head(s) = SP THEN Tail(s) ELSE s
TheScript == Unblank(built.task.Script)
TheCommand == Unblank(built.task.Command)

\* the first token of a package-manager task, and the arguments after it
HasToken == TheCommand # <<>> \/ built.task.Args # <<>>
Token == IF TheCommand # <<>> THEN TheCommand ELSE built.task.Args[1]
AfterToken == IF TheCommand # <<>> THEN built.task.Args ELSE Tail(built.task.Args)
IsBuiltinToken == Len(Token) = 1 /\ Token[1] \in NpmBuiltins
IsRunToken == Token \in {W("run"), W("run-script")}

\* "-- args..." when args are present
DashArgs(args) == IF args = <<>> THEN <<>> ELSE <<W("--")>> \o args

NpmArgvAsStated ==
    IF TheScript # <<>> THEN <<PackageManager, W("run"), TheScript>> \o DashArgs(built.task.Args)
    ELSE IF IsBuiltinToken THEN <<PackageManager, Token>> \o AfterToken
    ELSE <<PackageManager, W("run"), Token>> \o DashArgs(AfterToken)

\* C23 as stated: a package-manager task with a script runs
\* "<pm> run <script> [-- args...]"; otherwise its first token (the command,
\* or the first argument when the command is empty) is passed as
\* "<pm> <subcommand> <args...>" if it is a built-in subcommand, and as
\* "<pm> run <name> [-- remaining args...]" if it is not.
C23_NpmCommandLine ==
    (built.pc = "done" /\ TypeIs(NpmTypes) /\ (TheScript # <<>> \/ HasToken))
        => (BuiltOk /\ Argv = NpmArgvAsStated)

\* C23 as amended: the same, for every first token other than "run" and
\* "run-script" (built-in subcommands that take their first argument as a
\* script name); a task with neither script, command nor argument is an
\* error.
C23_NpmCommandLineExceptRun ==
    (built.pc = "done" /\ TypeIs(NpmTypes)) =>
        IF TheScript # <<>> \/ (HasToken /\ ~IsRunToken)
        THEN BuiltOk /\ Argv = NpmArgvAsStated
        ELSE ~HasToken => BuiltFailed

C23_Witness ==
    /\ BuiltOk
    /\ built.task.Type = W("NPM")
    /\ built.task.Script = <<>>
    /\ built.task.Command = <<>>
    /\ built.task.Args = <<W("build"), W("--fix")>>
    /\ Argv = <<W("npm"), W("run"), W("build"), W("--"), W("--fix")>>

\* C27: buildCmd dispatches on the type without regard to letter case, an
\* unset type meaning shell; a process task with an empty command and a task
\* of any other type than shell, process and npm yield an error and no
\* command, and then nothing is started.
C27_DispatchOnType ==
    built.pc = "done" =>
        /\ TypeIs(ShellTypes) =>
              /\ BuiltOk
              /\ built.cmd.Path = IF built.task.Shell.Executable # <<>>
                                    THEN built.task.Shell.Executable ELSE W("/bin/sh")
        /\ TypeIs(ProcessTypes) =>
              IF built.task.Command = <<>> THEN BuiltFailed
              ELSE BuiltOk /\ Argv = <<built.task.Command>> \o built.task.Args
        /\ (TypeIs(NpmTypes) /\ BuiltOk) => built.cmd.Path = PackageManager
        /\ ~TypeIs(ShellTypes \cup ProcessTypes \cup NpmTypes) => BuiltFailed
        /\ ~BuiltOk => (BuiltFailed /\ ~ChainOn /\ ~ENABLED StartAndWait)

C27_Witness ==
    /\ BuiltFailed
    /\ built.task.Type = <<"Process", SP>>
    /\ built.task.Command = <<>>
    /\ built.task.Args # <<>>
    /\ built.err = "process task has empty command"

\* C28: a package-manager task whose explicit command is "run" or
\* "run-script" (and that has no script) is an error without an argument;
\* with arguments it runs "<pm> run <first argument>", followed by "--" and
\* the remaining arguments only when there are remaining arguments.
C28_ExplicitRun ==
    (built.pc = "done" /\ TypeIs(NpmTypes) /\ TheScript = <<>>
        /\ TheCommand \in {W("run"), W("run-script")})
        => IF built.task.Args = <<>> THEN BuiltFailed
           ELSE /\ BuiltOk
                /\ Argv = <<PackageManager, W("run"), built.task.Args[1]>>
                              \o DashArgs(Tail(built.task.Args))

C28_Witness ==
    /\ BuiltOk
    /\ TypeIs(NpmTypes)
    /\ built.task.Command = W("run-script")
    /\ built.task.Args = <<W("build")>>
    /\ Argv = <<W("npm"), W("run"), W("build")>>

\* the line handed to the shell, and the part of it written for a single
\* argument
Line == Argv[Len(Argv)]
LineCmd == built.task.Command
Seg == IF LineCmd = <<>> THEN Line ELSE SubSeq(Line, Len(LineCmd) + 2, Len(Line))

\* a double-quoted body read back: a backslash stands for the character
\* after it
RECURSIVE Unescaped(_)
Unescaped(b) ==
    IF b = <<>> THEN <<>>
    ELSE IF Head(b) = BS /\ Len(b) >= 2 THEN <<b[2]>> \o Unescaped(SubSeq(b, 3, Len(b)))
    ELSE <<Head(b)>> \o Unescaped(Tail(b))

\* no bare double quote in the body, and a backslash is written only before
\* a double quote or a backslash (so that "$" stays as it is)
RECURSIVE WellEscaped(_)
WellEscaped(b) ==
    \/ b = <<>>
    \/ IF Head(b) = BS
       THEN Len(b) >= 2 /\ b[2] \in {DQ, BS} /\ WellEscaped(SubSeq(b, 3, Len(b)))
       ELSE Head(b) # DQ /\ WellEscaped(Tail(b))

\* seg is the argument a wrapped in double quotes
IsQuotedForm(seg, a) ==
    /\ Len(seg) >= 2
    /\ seg[1] = DQ
    /\ seg[Len(seg)] = DQ
    /\ WellEscaped(SubSeq(seg, 2, Len(seg) - 1))
    /\ Unescaped(SubSeq(seg, 2, Len(seg) - 1)) = a

Has(a, chars) == \E i \in 1 .. Len(a) : a[i] \in chars

\* rest is, for each argument in turn, a blank and a segment, and the
\* segment of an argument with a blank, "$" or a double quote is its quoted
\* form
RECURSIVE QuotedArgs(_, _)
QuotedArgs(rest, args) ==
    IF args = <<>> THEN rest = <<>>
    ELSE /\ rest # <<>>
         /\ rest[1] = SP
         /\ \E n \in 0 .. (Len(rest) - 1) :
               /\ Has(Head(args), {SP, "$", DQ})
                     => IsQuotedForm(SubSeq(rest, 2, n + 1), Head(args))
               /\ QuotedArgs(SubSeq(rest, n + 2, Len(rest)), Tail(args))

\* C24: on POSIX the line built from a command and arguments is the command
\* verbatim and unquoted, followed by the arguments one by one; each
\* argument that holds a blank, "$" or a double quote is wrapped in double
\* quotes, with "$" left as it is and the embedded double quote escaped by a
\* backslash.
C24_ArgumentsAreQuoted ==
    (BuiltOk /\ LineCmd # <<>> /\ built.task.Args # <<>>) =>
        /\ Len(Line) > Len(LineCmd)
        /\ SubSeq(Line, 1, Len(LineCmd)) = LineCmd
        /\ QuotedArgs(SubSeq(Line, Len(LineCmd) + 1, Len(Line)), built.task.Args)

C24_Witness ==
    /\ BuiltOk
    /\ LineCmd = W("a")
    /\ built.task.Args = TestArgs
    /\ Line = <<"a", SP, DQ, "a", SP, "a", DQ, SP, DQ, "$", "a", DQ,
                SP, DQ, "a", BS, DQ, "a", DQ>>

OneArg == BuiltOk /\ Len(built.task.Args) = 1
TheArg == built.task.Args[1]

\* C25 as stated: an argument that is empty, or holds a single quote, or an
\* odd number of double quotes, is left as it is; any other argument with a
\* blank or a shell metacharacter is wrapped in double quotes with
\* backslashes and double quotes escaped; every other argument is unchanged.
C25_UnbalancedLeftAsIs ==
    OneArg =>
        IF TheArg = <<>> \/ Has(TheArg, {SQ}) \/ Count(TheArg, DQ) % 2 = 1 THEN Seg = TheArg
        ELSE IF Has(TheArg, {SP, "$", BS, DQ}) THEN IsQuotedForm(Seg, TheArg)
        ELSE Seg = TheArg

\* C25 as amended: an empty argument becomes a pair of double quotes; an
\* argument with a blank, a shell metacharacter, a backslash, a single
\* quote or a double quote (balanced or not) is wrapped in double quotes
\* with backslashes and double quotes escaped; every other argument is
\* unchanged.
C25_QuotesWhateverTheQuotes ==
    OneArg =>
        IF TheArg = <<>> THEN Seg = <<DQ, DQ>>
        ELSE IF Has(TheArg, {SP, "$", BS, DQ, SQ}) THEN IsQuotedForm(Seg, TheArg)
        ELSE Seg = TheArg

C25_Witness ==
    /\ OneArg
    /\ TheArg = <<SQ, DQ>>
    /\ Seg = <<DQ, SQ, BS, DQ, DQ>>

\* C26: on POSIX, for every command and no arguments, the line is the
\* command, character for character.
C26_NoArgumentsVerbatim ==
    (BuiltOk /\ built.task.Args = <<>>) => Line = built.task.Command

C26_Witness ==
    /\ BuiltOk
    /\ built.task.Args = <<>>
    /\ built.task.Command = <<"$", SP, DQ>>
    /\ Line = <<"$", SP, DQ>>

\* C29: an error RunTask returns for a failed dependency is the failure of
\* one direct dependency wrapped with the label of that dependency, in
\* sequence mode and in parallel mode; a dependency's failure is never
\* returned bare.
C29_DependencyFailureIsLabelled ==
    main.pc = "returned" =>
        /\ main.ret = "depfailed" =>
              \E s \in 1 .. NDeps :
                  /\ main.lbl = RootDeps[s]
                  /\ run[s].pc = "done"
                  /\ run[s].ret # "nil"
                  /\ main.cause = run[s].ret
        /\ (FailedBranches # {} /\ main.ret # "notfound") => main.ret = "depfailed"

C29_Witness ==
    /\ main.pc = "returned"
    /\ main.ret = "depfailed"
    /\ NDeps = 2
    /\ RootDeps[1] # RootDeps[2]
    /\ main.lbl = RootDeps[2]
    /\ Satisfied(1)
    /\ run[2].ret = "exit"

\* C30: whenever waitWithPTY returns (process exit with or without error,
\* exit within the grace period after a cancellation, or the "killed"
\* timeout), the step of the return leaves the terminal in the mode it had
\* when that call put it into raw mode.
C30_TerminalModeRestored ==
    [][\A s \in Slots :
          (run[s].path \in PtyAttempts /\ run[s].pc # "done" /\ run'[s].pc = "done")
              => tty' = run[s].oldState]_vars

C30_Witness ==
    \E s \in Slots :
        /\ run[s].path \in PtyAttempts
        /\ run[s].pc = "done"
        /\ run[s].ret = "killed"
        /\ run[s].oldState = "cooked"
        /\ tty = "cooked"

\* the strings of a task as loaded that runTaskInternal substitutes
TaskFields(t) ==
    <<t.Cwd, t.Command>> \o (IF t.LinuxArgs = <<>> THEN t.Args ELSE t.LinuxArgs[1]) \o <<t.Env>>

RefCount(t, id) ==
    Cardinality({i \in 1 .. Len(TaskFields(t)) : reInput(TaskFields(t)[i]) = id})

OneBranch == branch[2].pc = "off"

NeverAsked(id) == \A src \in Sources : resolver.calls[id][src] = 0
AskedAtMostOnce(id) == \A src \in Sources : resolver.calls[id][src] <= 1

\* C14: when one task refers to an input two or more times, the source of
\* that input has been invoked exactly once when the task's strings are
\* substituted (never, if the environment supplies the value), whether the
\* first invocation succeeded or failed.
C14_RepeatedInputAskedOnce ==
    (OneBranch /\ branch[1].pc = "done") =>
        \A id \in InputIds :
            RefCount(branch[1].task, id) >= 2 =>
                /\ AskedAtMostOnce(id)
                /\ Getenv(ToUpper(id)) = "" => ~NeverAsked(id)

\* C15: with parallel branches that share the resolver, the source of an
\* input is invoked at most once under every interleaving (stated for the
\* runs in which no resolution fails).
C15_ParallelBranchesAskOnce ==
    (\A b \in Branches : ~branch[b].failed) => \A id \in InputIds : AskedAtMostOnce(id)

\* C16: when the resolution of an input a task refers to fails, the task's
\* process is not started and the source that failed is not invoked again.
C16_FailedResolutionFailsTask ==
    \A b \in Branches :
        branch[b].failed =>
            /\ ~branch[b].started
            /\ OneBranch => \A id \in InputIds : AskedAtMostOnce(id)

\* the value of VSTASK_INPUT_X is what the resolver holds and what was
\* substituted, and no source was invoked
EnvironmentWins ==
    \A id \in InputIds :
        /\ NeverAsked(id)
        /\ Cached(id) => resolver.cache[id] = inputs.osenv["X"]
        /\ \A b \in Branches :
              branch[b].pc = "done" =>
                  \A i \in 1 .. NFields(b) :
                      FieldAt(b, i) \in {"", Literal, inputs.osenv["X"]}

\* C17 as stated: when VSTASK_INPUT_<ID> is set, the first Resolve of the
\* id returns and caches its value and invokes no source.
C17_SetVariableWins == inputs.osenv["X"] # "unset" => EnvironmentWins

\* C17 as amended: when VSTASK_INPUT_<ID> is set to a non-empty value, the
\* first Resolve of the id returns and caches its value and invokes no
\* source, whether or not the id has an input definition.
C17_NonEmptyVariableWins == inputs.osenv["X"] \notin {"unset", ""} => EnvironmentWins

C17_Witness ==
    /\ inputs.osenv["X"] = "e"
    /\ inputs.kind["x"] = "promptString"
    /\ resolver.cache["x"] = "e"
    /\ resolver.cache["X"] = "e"
    /\ branch[1].pc = "done"
    /\ branch[1].eff.Command = "e"

\* C18: the task as loaded is never changed by a run: the args of the
\* original task are what they were when the run began.
C18_OriginalTaskUnchanged == \A b \in Branches : heap[b] = branch[b].task.Args

(* ------------------- background tasks without readiness ---------------- *)

\* the dependency of slot s is flagged background and its matcher gives
\* neither immediate activation nor a begin pattern that compiles
UnusableMatchers == {"none", "invalid", "blank"}
NormalBackground(s) ==
    /\ run[s].pc # "idle"
    /\ SlotTask(s).IsBackground
    /\ SlotTask(s).ProblemMatcher \in UnusableMatchers

\* C31: a dependency flagged background without a usable matcher is run as a
\* normal task: it is never started in the readiness-gated mode, readiness
\* never fires for it, and unless the run is cancelled its call returns
\* only once the process it started has exited.
C31_UnusableMatcherRunsNormally ==
    \A s \in DepSlots :
        NormalBackground(s) =>
            /\ run[s].path # "ready"
            /\ ~proc[s].ready
            /\ (run[s].pc = "done" /\ proc[s].st # "none" /\ ~run[s].ctxDone)
                   => proc[s].st = "exited"

\* a background dependency whose begin pattern does not compile has run on
\* the normal path, printed nothing that could count, and was waited for
C31_Witness ==
    /\ NormalBackground(1)
    /\ SlotTask(1).ProblemMatcher \in {"invalid", "blank"}
    /\ run[1].pc = "done"
    /\ run[1].path \in Attempts
    /\ proc[1].st = "exited"
    /\ run[0].pc = "wait"

(* ----------------------- the sources of an input ----------------------- *)

\* the sources a step invokes for id, and whether it resolves id through them
UsedNow(id) == {src \in Sources : resolver'.calls[id][src] # resolver.calls[id][src]}
ResolvesNow(id) == UsedNow(id) # {}

\* one resolution of id without override: the source the definition of id
\* calls for, and the value in the cache afterwards
SourceChain(id) ==
    LET kind == inputs.kind[id]
        used == UsedNow(id)
        ans == resolver'.last[id]
        val == resolver'.cache[id]
    IN  /\ kind = "undefined" => used = {"line"}
        /\ kind = "promptString" => used = {"prompt"}
        /\ kind = "pickString" => used = {"pick"}
        /\ kind = "pickNoOptions" => used = {"prompt"}
        /\ kind \in {"command", "commandDefault"} =>
               /\ "shell" \in used
               /\ ans.out = "o\n" => (used = {"shell"} /\ val = "o")
               /\ (ans.out # "o\n" /\ kind = "commandDefault") => (used = {"shell"} /\ val = "d")
               /\ (ans.out # "o\n" /\ kind = "command") => used = {"shell", "prompt"}
        /\ (~ans.err /\ used \cap {"line", "prompt", "pick"} # {}) => val = "p"
        /\ ~ans.err => val # Absent

\* every resolution without override follows the chain
ChainFollowed ==
    \A id \in InputIds : (ResolvesNow(id) /\ Getenv(ToUpper(id)) = "") => SourceChain(id)

\* a value in the cache stays there
CacheKept ==
    \A id \in InputIds : Cached(id) => resolver'.cache[id] = resolver.cache[id]

ResolveFollowsChain == [][ChainFollowed]_vars

\* C32: without an environment override Resolve asks the source its chain
\* gives for the input (free-text prompt, choice list, trimmed shell output
\* then default then prompt, plain line prompt for an unknown id), and every
\* value obtained is in the cache from then on, for the rest of the run.
C32_SourceChainAndCache == [][ChainFollowed /\ CacheKept]_vars

(* ------------------------ the order of the passes ---------------------- *)

\* the variables a position is substituted with, once the cwd is known
VarsAt(pos) == buildVSCodeVarMapWithCWD(IF pos = 1 THEN ProcessCwd ELSE subst.cwd)

\* C33: every substituted string (cwd option, command, arguments,
\* environment value) is the variable substitution of the input substitution
\* of the string of the task: a variable inside the value of the input is
\* expanded, and a reference to the input inside the value of a variable is
\* left as it is.
C33_InputsThenVariables ==
    subst.pc = "done" =>
        \A pos \in 1 .. Len(subst.task) :
            /\ \E order \in Orders3 :
                  subst.eff[pos] =
                      substituteVars(replaceInputs(subst.task[pos], subst.val), VarsAt(pos), order)
            /\ (subst.task[pos] = <<InputToken>> /\ subst.val = <<"${cwd}">>)
                   => subst.eff[pos] = VarsAt(pos).cwd
            /\ (subst.task[pos] = <<"${execPath}">> /\ subst.execPath = <<InputToken>>)
                   => subst.eff[pos] = <<InputToken>>

\* a task whose argument is the input, the input holding ${cwd}, and whose
\* environment value is ${execPath}, that variable holding ${input:x}
C33_Witness ==
    /\ subst.pc = "done"
    /\ subst.val = <<"${cwd}">>
    /\ subst.execPath = <<InputToken>>
    /\ \E pos \in 3 .. Len(subst.task) - 1 :
          /\ subst.task[pos] = <<InputToken>>
          /\ subst.eff[pos] = subst.cwd
    /\ subst.task[Len(subst.task)] = <<"${execPath}">>
    /\ subst.eff[Len(subst.task)] = <<InputToken>>

(* ----------------------- the walk of the dependencies ------------------ *)

WalkDone == walk.pc = "on" /\ walk.frames[<<RootLabel>>].pc = "done"
WalkResult == walk.frames[<<RootLabel>>].ret

\* C34: runSingleTaskWithDeps returns "cycle detected" only when the graph
\* reachable from its task has a cycle; on an acyclic graph whose labels
\* all exist and whose processes all succeed (a diamond included) it
\* returns no error and every task reachable from its task has been run.
C34_CycleOnlyWhenCyclic ==
    WalkDone =>
        /\ WalkResult.kind = "cycle" => CycleLabels # {}
        /\ (CycleLabels = {} /\ MissingLabel \notin Closure(RootLabel)
               /\ WalkResult.kind \notin {"exit"})
              => /\ WalkResult.kind = "nil"
                 /\ \A l \in {RootLabel} \cup Closure(RootLabel) : walk.starts[l] >= 1

\* C35: within one runSingleTaskWithDeps, under every interleaving of the
\* parallel branches, the process of a label is started at most once.
C35_StartedAtMostOnce ==
    walk.pc = "on" => \A l \in Labels : walk.starts[l] <= 1

(* ------------------------ readiness and the exit ---------------------- *)

\* C36: when the process of a readiness-gated run has printed a line that
\* satisfies the matcher and has then exited, with any status, the run call
\* returns success whichever of readiness and exit the select takes (stated
\* for the runs that are not cancelled).
C36_ReadyThenExitIsSuccess ==
    \A s \in Slots :
        (/\ run[s].pc = "done"
         /\ run[s].path = "ready"
         /\ proc[s].ready
         /\ proc[s].st = "exited"
         /\ ~run[s].ctxDone)
            => run[s].ret = "nil"

(* -------------------- signals and the fallback steps ------------------ *)

\* the run of slot s is in, or has returned from, the cancellation branch of
\* startAndWaitStdio or waitWithPTY, and its process has not exited
CancelledAndRunning(s) ==
    /\ run[s].path \in Attempts
    /\ run[s].ctxDone
    /\ run[s].pc \in {"grace", "done"}
    /\ proc[s].st = "running"

\* C37: on cancellation killTree's SIGTERM reaches the process whichever
\* step of the fallback chain started it: no run is in or past its
\* cancellation branch with a process that runs and was never signalled.
C37_SignalReachesEveryStep ==
    \A s \in Slots : CancelledAndRunning(s) => proc[s].signalled

\* the timer killTree scheduled for the process of slot s fires in this step
\* and sends SIGKILL to the group
TimerFires(s) == proc[s].timer /\ ~proc'[s].timer /\ main'.pc # "exited"

\* the run of slot s has received the exit status of its process from Wait
ExitObserved(s) == proc[s].st = "exited" /\ run[s].saw # -1

\* C38: no signal is sent to the group of a process once the run has
\* observed the exit of that process through Wait: the delayed SIGKILL of
\* killTree is not delivered after the process has been reaped.
C38_NoSignalAfterReap ==
    [][\A s \in Slots : TimerFires(s) => ~ExitObserved(s)]_vars

\* the run call of slot s returned on <-readyCh and left its process running
LeftRunning(s) ==
    /\ run[s].pc = "done"
    /\ run[s].path = "ready"
    /\ run[s].ret = "nil"
    /\ run[s].saw = -1

\* no SIGTERM or SIGKILL of the runner has reached the process of slot s,
\* and no timer of the runner is about to send one
Unsignalled(s) == ~proc[s].signalled /\ ~proc[s].killed /\ ~proc[s].timer

\* C39: a dependency whose run call returned on readiness and left the
\* process running is never signalled by the runner afterwards: not when a
\* later task is cancelled, not when RunTask returns, not when the runner
\* exits.
C39_ReadyDependencyNeverSignalled ==
    \A s \in Slots : LeftRunning(s) => Unsignalled(s)

\* the dependency was left running, the requested task was cancelled and
\* killed after it, and the runner has exited
C39_Witness ==
    /\ LeftRunning(1)
    /\ proc[1].st = "running"
    /\ run[0].ctxDone
    /\ proc[0].signalled
    /\ main.pc = "exited"

\* the strings of branch b that replaceInputs has already been applied to
Replaced(b) ==
    IF branch[b].pc \in {"replace", "done"}
    THEN {i \in 1 .. NFields(b) : i < branch[b].pos}
    ELSE {}

\* the values that have replaced ${input:id} so far in this run
SubstitutedValues(id) ==
    UNION {{FieldAt(b, i) : i \in {j \in Replaced(b) :
                                      reInput(TaskFields(branch[b].task)[j]) = id}} :
           b \in Branches}

\* C40: within one run every occurrence of ${input:ID} for the same ID, in
\* all strings of all tasks executed, is replaced by the same value.
C40_SameValueEverywhere ==
    \A id \in InputIds : Cardinality(SubstitutedValues(id)) <= 1

====
